---- MODULE Spec2Model ----
(***************************************************************************)
(* Streaming session manager of the edgecase extension's background        *)
(* service worker (extension/src/background/index.ts): StreamManager.start *)
(* and StreamManager.cancel, and the chrome.storage.local entries they     *)
(* read and write; the tab-state store of the same file (mergeTabState,    *)
(* chrome.tabs.onRemoved); and the context and code-snapshot publishers of *)
(* the content script (src/content/index.tsx) with the capture adapters    *)
(* they call.                                                              *)
(*                                                                         *)
(* One start call is a process: every `await` of start is one position of  *)
(* pc, and the action of that name is the continuation that runs when the  *)
(* awaited promise settles (resolves or rejects).  A mergeTabState call is *)
(* a process in the same way.                                              *)
(*                                                                         *)
(* Specifications: Spec (two start calls and cancel), SpecStream (one      *)
(* start call reading a longer text stream), SpecMerge (two tab-state      *)
(* merges), SpecTab (a start call, two tab-state merges, tab removal and   *)
(* cancel), SpecContext (publishContextIfChanged), SpecCapture (page       *)
(* bridge, periodic scan and publishCodeSnapshot), SpecPublish (capture up *)
(* to the stored tab state), SpecPort (the chat UI's port listener),       *)
(* SpecBus (the one-shot message bus and saveSettings), SpecResolve (start *)
(* resolving context and code snapshot while the tab state is updated),    *)
(* SpecUi (the chat UI of one tab and the background behind its port) and  *)
(* SpecUiFair (the same when every awaited operation settles), SpecPrompt  *)
(* (buildSystemPrompt), SpecPanel (the legacy side panel's port listener), *)
(* SpecClear (a start call and CLEAR_CHAT_HISTORY), SpecContextRpc         *)
(* (publishContextIfChanged with the outcome of its rpc), SpecQuiet (code  *)
(* capture on a page that no longer changes, timers firing for ever),      *)
(* SpecEndpoints (sessions and cancels on two ports) and SpecIsolation     *)
(* (sessions of two tabs and cancels).                                     *)
(***************************************************************************)
EXTENDS Integers, Sequences, FiniteSets, TLC

\* ------------------------------------------------------------- bounds
MaxChunks == 1       \* deltas one text stream yields at most

\* ---------------------------------------------------------- constants
MAX_HISTORY_MESSAGES == 30

Tabs == {1, 2}
ReqIds == {"r1", "r2"}
\* the port a SEND_CHAT_STREAM arrives on
Ports == {"p1"}
\* the start calls of one behaviour: a session and a second one, of the same or
\* of another (tab, request) pair, before, during or after the first
Calls == {1, 2}
\* request.text as a sequence of characters: whitespace-only, or not
Texts == {<<" ">>, <<"q">>}
\* one delta of result.textStream
Deltas == {<<"a">>, <<" ">>}
\* settings.apiKey as stored
ApiKeys == {"", "sk"}

NoCall == 0
\* one chrome.storage.local entry: absent, or present with a value
Absent == [present |-> FALSE, value |-> <<>>]
Stored(v) == [present |-> TRUE, value |-> v]

VARIABLES
  sessions,    \* StreamManager.sessions: key -> the call whose controller is registered
  pc,          \* position of each start call
  request,     \* the StreamRequest (and port) each start call was given
  aborted,     \* controller.signal.aborted of each call's AbortController
  local,       \* start's locals: history, response, nextHistory
  events,      \* payloads each start call passed to emit, in order
  storage,     \* chrome.storage.local: settings, and per tab a history and a tab state
  started,     \* number of start calls made so far
  histWrites,  \* history: number of setHistory writes each call completed
  prevLen,     \* history: length of the tab's persisted history when start was called
  loadedLen    \* history: length of the history each call loaded with getHistory

streamVars == <<sessions, pc, request, aborted, local, events, storage, started,
                histWrites, prevLen, loadedLen>>

VARIABLES
  merge,       \* the mergeTabState calls: position, tabId, patch and the state read
  closed,      \* history: the tabs chrome.tabs.onRemoved has fired for
  lastPatch    \* history: per tab and field, the value of the last merge write patching it

tabVars == <<merge, closed, lastPatch>>

VARIABLES
  state,                 \* content script: state.context and state.codeSnapshot
  lastContextSignature,  \* content script: signature of the last context sent
  rpcs,                  \* history: the rpc requests the publishers have sent, in order
  scans,                 \* history: the publishContextIfChanged calls, in order
  page,                  \* the hosting page: its editor object, rendered lines, textarea
  bridgeMsgs             \* window messages the page bridge posted, not yet delivered

contentVars == <<state, lastContextSignature, rpcs, scans, page, bridgeMsgs>>

VARIABLES
  ui,          \* content script: state.history, sending, requestId, statusText/Type
  toBg,        \* messages the UI posted on its port, not yet received
  toUi,        \* stream events posted on the UI's port, not yet received
  lastReceived \* history: the event the listener ran on last

uiVars == <<ui, toBg, toUi, lastReceived>>

VARIABLES
  bus          \* the one-shot bus: the request being served and what was sent back

busVars == <<bus>>

VARIABLES
  prompt       \* the system prompt start built last, with what it was built from

promptVars == <<prompt>>

VARIABLES
  acked        \* how many rpc calls have settled, whether the last of them
               \* succeeded, and the signature of the last context whose
               \* CONTEXT_UPDATE call succeeded

rpcVars == <<acked>>

vars == <<sessions, pc, request, aborted, local, events, storage, started,
          histWrites, prevLen, loadedLen, merge, closed, lastPatch,
          state, lastContextSignature, rpcs, scans, page, bridgeMsgs,
          ui, toBg, toUi, lastReceived, bus, prompt, acked>>

\* ------------------------------------------------------ pure functions
Min(a, b) == IF a <= b THEN a ELSE b

IsSpace(ch) == ch = " "

RECURSIVE TrimStart(_)
TrimStart(s) ==
  IF s = <<>> THEN <<>>
  ELSE IF IsSpace(Head(s)) THEN TrimStart(Tail(s)) ELSE s

RECURSIVE TrimEnd(_)
TrimEnd(s) ==
  IF s = <<>> THEN <<>>
  ELSE IF IsSpace(s[Len(s)]) THEN TrimEnd(SubSeq(s, 1, Len(s) - 1)) ELSE s

\* String.prototype.trim
Trim(s) == TrimEnd(TrimStart(s))

\* a mutant of sessionKey: the request id is left out of the key
sessionKey_TabOnly(tabId, requestId) == <<tabId, "r1">>

sessionKey(tabId, requestId) == <<tabId, requestId>>

Keys == {sessionKey(t, r) : t \in Tabs, r \in ReqIds}

\* a mutant of trimHistory: one item too many is kept
trimHistory_CapPlusOne(history) ==
  IF Len(history) <= MAX_HISTORY_MESSAGES THEN history
  ELSE SubSeq(history, Len(history) - MAX_HISTORY_MESSAGES, Len(history))

\* a mutant of trimHistory: the cap is applied to the wrong end
trimHistory_KeepsOldest(history) ==
  IF Len(history) <= MAX_HISTORY_MESSAGES THEN history
  ELSE SubSeq(history, 1, MAX_HISTORY_MESSAGES)

trimHistory(history) ==
  IF Len(history) <= MAX_HISTORY_MESSAGES THEN history
  ELSE SubSeq(history, Len(history) - MAX_HISTORY_MESSAGES + 1, Len(history))

\* a mutant of getHistory: one history key for every tab
getHistory_OneKey(tabId) ==
  IF storage.history[1].present THEN storage.history[1].value ELSE <<>>

\* getHistory: the stored array, or [] when the key is absent
getHistory(tabId) ==
  IF storage.history[tabId].present THEN storage.history[tabId].value ELSE <<>>

\* getTabState: the stored object, or the default when the key is absent
getTabState(tabId) ==
  IF storage.tabState[tabId].present THEN storage.tabState[tabId].value
  ELSE [context |-> "null", codeSnapshot |-> "null"]

\* a mutant of the resolution: the persisted value wins over the request's
OrElse_PersistedFirst(value, fallback) == IF fallback # "null" THEN fallback ELSE value

\* value || fallback, for a value that is an object or null
OrElse(value, fallback) == IF value # "null" THEN value ELSE fallback

\* a persisted conversation of n items written by earlier sessions
OldHistory(n) ==
  [i \in 1..n |-> [role |-> IF i % 2 = 1 THEN "user" ELSE "assistant",
                   content |-> <<ToString(i)>>]]

DEFAULT_SETTINGS == [apiKey |-> "", totalTokens |-> 0]

NoRequest == [tabId |-> 0, requestId |-> "", text |-> <<>>, port |-> "",
              context |-> "null", codeSnapshot |-> "null"]

\* start's locals before they are assigned, and after start has returned
NoLocal == [history |-> <<>>, response |-> <<>>, nextHistory |-> <<>>,
            tabState |-> [context |-> "null", codeSnapshot |-> "null"],
            context |-> "null", codeSnapshot |-> "null"]

KeyOf(c) == sessionKey(request[c].tabId, request[c].requestId)

\* -------------------------------------------------------------- events
StartEvent(c) ==
  [type |-> "STREAM_START", requestId |-> request[c].requestId, port |-> request[c].port]

\* a mutant of the chunk payload: the text accumulated so far is sent again
ChunkEvent_Accumulated(c, delta) ==
  [type |-> "STREAM_CHUNK", requestId |-> request[c].requestId, port |-> request[c].port,
   chunk |-> local[c].response \o delta]

ChunkEvent(c, delta) ==
  [type |-> "STREAM_CHUNK", requestId |-> request[c].requestId, port |-> request[c].port,
   chunk |-> delta]

\* a mutant of the STREAM_DONE payload: it carries the array before trimHistory
DoneEvent_Untrimmed(c) ==
  [type |-> "STREAM_DONE", requestId |-> request[c].requestId, port |-> request[c].port,
   history |-> local[c].history \o
                 << [role |-> "user", content |-> request[c].text],
                    [role |-> "assistant", content |-> Trim(local[c].response)] >>,
   response |-> Trim(local[c].response)]

DoneEvent(c) ==
  [type |-> "STREAM_DONE", requestId |-> request[c].requestId, port |-> request[c].port,
   history |-> local[c].nextHistory, response |-> Trim(local[c].response)]

ErrorEvent(c, message) ==
  [type |-> "STREAM_ERROR", requestId |-> request[c].requestId, port |-> request[c].port,
   error |-> message]

\* ---------------------------------------------------------------- Init
\* the service worker after construction; tab 1 has been open for a while
StreamInit ==
  /\ sessions = [k \in Keys |-> NoCall]
  /\ pc = [c \in Calls |-> "idle"]
  /\ request = [c \in Calls |-> NoRequest]
  /\ aborted = [c \in Calls |-> FALSE]
  /\ local = [c \in Calls |-> NoLocal]
  /\ events = [c \in Calls |-> <<>>]
  \* tab 1 holds a conversation already at the cap, tab 2 has no history key yet
  /\ \E key \in ApiKeys :
       storage = [settings |-> [apiKey |-> key, totalTokens |-> 0],
                  history |-> [t \in Tabs |-> IF t = 1
                                 THEN Stored(OldHistory(MAX_HISTORY_MESSAGES))
                                 ELSE Absent],
                  tabState |-> [t \in Tabs |-> IF t = 1
                                 THEN Stored([context |-> "c0", codeSnapshot |-> "s0"])
                                 ELSE Absent]]
  /\ started = 0
  /\ histWrites = [c \in Calls |-> 0]
  /\ prevLen = [c \in Calls |-> 0]
  /\ loadedLen = [c \in Calls |-> 0]

\* ------------------------------------------------- StreamManager.start
\* catch and finally of start: one STREAM_ERROR, then sessions.delete(key)
Catch(c, message) ==
  /\ events' = [events EXCEPT ![c] =
       Append(@, ErrorEvent(c, IF aborted[c] THEN "Request canceled." ELSE message))]
  /\ sessions' = [sessions EXCEPT ![KeyOf(c)] = NoCall]
  /\ local' = [local EXCEPT ![c] = NoLocal]
  /\ pc' = [pc EXCEPT ![c] = "returned"]

\* a rejection outside the try block: start's own promise rejects
Reject(c) ==
  /\ pc' = [pc EXCEPT ![c] = "rejected"]
  /\ local' = [local EXCEPT ![c] = NoLocal]
  /\ UNCHANGED <<events, sessions>>

\* the port listener receives SEND_CHAT_STREAM: start runs up to its first await
StartCallWith(c, tabId, requestId, port, text, context, codeSnapshot) ==
  /\ c = started + 1
  /\ pc[c] = "idle"
  /\ started' = c
  /\ request' = [request EXCEPT ![c] =
       [tabId |-> tabId, requestId |-> requestId, text |-> text, port |-> port,
        context |-> context, codeSnapshot |-> codeSnapshot]]
  /\ sessions' = [sessions EXCEPT ![sessionKey(tabId, requestId)] = c]
  /\ aborted' = [aborted EXCEPT ![c] = FALSE]
  /\ prevLen' = [prevLen EXCEPT ![c] = Len(getHistory(tabId))]
  /\ pc' = [pc EXCEPT ![c] = "getSettings"]
  /\ UNCHANGED <<local, events, storage, histWrites, loadedLen>>

\* start with a request that carries neither a context nor a code snapshot
StartCall(c, tabId, requestId, port, text) ==
  StartCallWith(c, tabId, requestId, port, text, "null", "null")

\* await getSettings() settles; the apiKey check follows
GetSettings(c) ==
  /\ pc[c] = "getSettings"
  /\ \/ Reject(c)
     \/ /\ storage.settings.apiKey = ""
        /\ events' = [events EXCEPT ![c] = Append(@, ErrorEvent(c, "Missing API key."))]
        /\ sessions' = [sessions EXCEPT ![KeyOf(c)] = NoCall]
        /\ pc' = [pc EXCEPT ![c] = "returned"]
        /\ UNCHANGED local
     \/ /\ storage.settings.apiKey # ""
        /\ pc' = [pc EXCEPT ![c] = "getTabState"]
        /\ UNCHANGED <<events, sessions, local>>
  /\ UNCHANGED <<request, aborted, storage, started, histWrites, prevLen, loadedLen>>

\* await getTabState(request.tabId) settles: context and codeSnapshot are resolved
GetTabState(c) ==
  /\ pc[c] = "getTabState"
  /\ \/ Reject(c)
     \/ /\ pc' = [pc EXCEPT ![c] = "getHistory"]
        /\ LET tabState == getTabState(request[c].tabId)
           IN local' = [local EXCEPT
                 ![c].tabState = tabState,
                 ![c].context = OrElse(request[c].context, tabState.context),
                 ![c].codeSnapshot = OrElse(request[c].codeSnapshot, tabState.codeSnapshot)]
        /\ UNCHANGED <<events, sessions>>
  /\ UNCHANGED <<request, aborted, storage, started, histWrites, prevLen, loadedLen>>

\* await getHistory(request.tabId) settles; STREAM_START is emitted and
\* streamText is called with controller.signal
GetHistory(c) ==
  /\ pc[c] = "getHistory"
  /\ \/ /\ Reject(c)
        /\ UNCHANGED loadedLen
     \/ /\ local' = [local EXCEPT ![c].history = getHistory(request[c].tabId)]
        /\ loadedLen' = [loadedLen EXCEPT ![c] = Len(getHistory(request[c].tabId))]
        /\ events' = [events EXCEPT ![c] = Append(@, StartEvent(c))]
        /\ pc' = [pc EXCEPT ![c] = "streamText"]
        /\ UNCHANGED sessions
  /\ UNCHANGED <<request, aborted, storage, started, histWrites, prevLen>>

\* await streamText(...) settles: an aborted signal or a provider failure rejects it.
\* Once controller.signal is aborted the completion call yields nothing more: its
\* next settlement (here or in the text stream) is the rejection.
StreamText(c) ==
  /\ pc[c] = "streamText"
  /\ \/ Catch(c, "provider failure")
     \/ /\ ~aborted[c]
        /\ pc' = [pc EXCEPT ![c] = "textStream"]
        /\ UNCHANGED <<events, sessions, local>>
  /\ UNCHANGED <<request, aborted, storage, started, histWrites, prevLen, loadedLen>>

\* one iteration of the for-await loop: response += delta, STREAM_CHUNK
\* (a delta is one character, so Len(response) counts the deltas read)
ReadDeltaUpTo(c, delta, max) ==
  /\ pc[c] = "textStream"
  /\ ~aborted[c]
  /\ Len(local[c].response) < max
  /\ local' = [local EXCEPT ![c].response = @ \o delta]
  /\ events' = [events EXCEPT ![c] = Append(@, ChunkEvent(c, delta))]
  /\ UNCHANGED <<sessions, pc, request, aborted, storage, started, histWrites, prevLen, loadedLen>>

ReadDelta(c, delta) == ReadDeltaUpTo(c, delta, MaxChunks)

\* the text stream throws: the signal was aborted, or the provider failed
ReadThrow(c) ==
  /\ pc[c] = "textStream"
  /\ Catch(c, "provider failure")
  /\ UNCHANGED <<request, aborted, storage, started, histWrites, prevLen, loadedLen>>

\* the text stream ends; result.usage is settled by then, and
\* incrementTokenCounter(usage) is called
ReadEnd(c) ==
  /\ pc[c] = "textStream"
  /\ ~aborted[c]
  /\ pc' = [pc EXCEPT ![c] = "incrementTokenCounter"]
  /\ UNCHANGED <<sessions, request, aborted, local, events, storage, started,
                 histWrites, prevLen, loadedLen>>

\* await incrementTokenCounter(usage) settles (getSettings, then saveSettings, taken
\* as one step: one token of usage per exchange); on success nextHistory is
\* computed and setHistory is called
IncrementTokenCounter(c) ==
  /\ pc[c] = "incrementTokenCounter"
  /\ \/ /\ Catch(c, "storage failure")
        /\ UNCHANGED storage
     \/ /\ storage' = [storage EXCEPT !.settings.totalTokens = @ + 1]
        /\ local' = [local EXCEPT ![c].nextHistory =
             trimHistory(local[c].history \o
               << [role |-> "user", content |-> request[c].text],
                  [role |-> "assistant", content |-> Trim(local[c].response)] >>)]
        /\ pc' = [pc EXCEPT ![c] = "setHistory"]
        /\ UNCHANGED <<events, sessions>>
  /\ UNCHANGED <<request, aborted, started, histWrites, prevLen, loadedLen>>

\* a mutant of SetHistory: the store keeps the new history although the write
\* is reported as failed
SetHistory_WritesThenFails(c) ==
  /\ pc[c] = "setHistory"
  /\ \/ /\ Catch(c, "storage failure")
        /\ storage' = [storage EXCEPT !.history[request[c].tabId] =
             Stored(local[c].nextHistory)]
        /\ histWrites' = [histWrites EXCEPT ![c] = @ + 1]
     \/ /\ storage' = [storage EXCEPT !.history[request[c].tabId] =
             Stored(local[c].nextHistory)]
        /\ histWrites' = [histWrites EXCEPT ![c] = @ + 1]
        /\ pc' = [pc EXCEPT ![c] = "emitDone"]
        /\ UNCHANGED <<events, sessions, local>>
  /\ UNCHANGED <<request, aborted, started, prevLen, loadedLen>>

\* a mutant of SetHistory: the write appends the exchange to the history the
\* store holds at the write, not to the one start loaded
SetHistory_ReadsAgain(c) ==
  /\ pc[c] = "setHistory"
  /\ \/ /\ Catch(c, "storage failure")
        /\ UNCHANGED <<storage, histWrites>>
     \/ /\ storage' = [storage EXCEPT !.history[request[c].tabId] =
             Stored(trimHistory(getHistory(request[c].tabId) \o
               << [role |-> "user", content |-> request[c].text],
                  [role |-> "assistant", content |-> Trim(local[c].response)] >>))]
        /\ histWrites' = [histWrites EXCEPT ![c] = @ + 1]
        /\ pc' = [pc EXCEPT ![c] = "emitDone"]
        /\ UNCHANGED <<events, sessions, local>>
  /\ UNCHANGED <<request, aborted, started, prevLen, loadedLen>>

\* await setHistory(...) settles: chrome.storage.local.set fails, or stores nextHistory
SetHistory(c) ==
  /\ pc[c] = "setHistory"
  /\ \/ /\ Catch(c, "storage failure")
        /\ UNCHANGED <<storage, histWrites>>
     \/ /\ storage' = [storage EXCEPT !.history[request[c].tabId] =
             Stored(local[c].nextHistory)]
        /\ histWrites' = [histWrites EXCEPT ![c] = @ + 1]
        /\ pc' = [pc EXCEPT ![c] = "emitDone"]
        /\ UNCHANGED <<events, sessions, local>>
  /\ UNCHANGED <<request, aborted, started, prevLen, loadedLen>>

\* a mutant of the success path: the cleanup of a canceled call posts the
\* cancellation error after STREAM_DONE
EmitDone_ThenCancelError(c) ==
  /\ pc[c] = "emitDone"
  /\ events' = [events EXCEPT ![c] =
       IF aborted[c]
       THEN Append(Append(@, DoneEvent(c)), ErrorEvent(c, "Request canceled."))
       ELSE Append(@, DoneEvent(c))]
  /\ sessions' = [sessions EXCEPT ![KeyOf(c)] = NoCall]
  /\ local' = [local EXCEPT ![c] = NoLocal]
  /\ pc' = [pc EXCEPT ![c] = "returned"]
  /\ UNCHANGED <<request, aborted, storage, started, histWrites, prevLen, loadedLen>>

\* the continuation after await setHistory: STREAM_DONE, then finally
EmitDone(c) ==
  /\ pc[c] = "emitDone"
  /\ events' = [events EXCEPT ![c] = Append(@, DoneEvent(c))]
  /\ sessions' = [sessions EXCEPT ![KeyOf(c)] = NoCall]
  /\ local' = [local EXCEPT ![c] = NoLocal]
  /\ pc' = [pc EXCEPT ![c] = "returned"]
  /\ UNCHANGED <<request, aborted, storage, started, histWrites, prevLen, loadedLen>>

\* ------------------------------------------------ StreamManager.cancel
\* a mutant of cancel: it cleans up and reports the cancellation itself
Cancel_CleansUp(tabId, requestId) ==
  LET key == sessionKey(tabId, requestId) IN
  /\ IF sessions[key] # NoCall
     THEN /\ aborted' = [aborted EXCEPT ![sessions[key]] = TRUE]
          /\ sessions' = [sessions EXCEPT ![key] = NoCall]
     ELSE UNCHANGED <<aborted, sessions>>
  /\ UNCHANGED <<pc, request, local, events, storage, started, histWrites, prevLen, loadedLen>>

\* a mutant of cancel: it posts the cancellation error for every call it is given
Cancel_Emits(tabId, requestId) ==
  LET key == sessionKey(tabId, requestId) IN
  /\ IF sessions[key] # NoCall
     THEN /\ aborted' = [aborted EXCEPT ![sessions[key]] = TRUE]
          /\ events' = [events EXCEPT ![sessions[key]] =
               Append(@, ErrorEvent(sessions[key], "Request canceled."))]
          /\ Len(events[sessions[key]]) < MaxChunks + 4
     ELSE UNCHANGED <<aborted, events>>
  /\ UNCHANGED <<sessions, pc, request, local, storage, started, histWrites, prevLen, loadedLen>>

\* the port listener receives CANCEL_CHAT_STREAM
Cancel(tabId, requestId) ==
  LET key == sessionKey(tabId, requestId) IN
  /\ IF sessions[key] # NoCall
     THEN aborted' = [aborted EXCEPT ![sessions[key]] = TRUE]
     ELSE UNCHANGED aborted
  /\ UNCHANGED <<sessions, pc, request, local, events, storage, started,
                 histWrites, prevLen, loadedLen>>

\* a mutant of the port listener: the endpoint that sent the cancel is told so
CancelOn_Answers(port, tabId, requestId) ==
  LET key == sessionKey(tabId, requestId) IN
  /\ IF sessions[key] # NoCall
     THEN /\ aborted' = [aborted EXCEPT ![sessions[key]] = TRUE]
          /\ events' = [events EXCEPT ![sessions[key]] =
               Append(@, [type |-> "STREAM_ERROR", requestId |-> requestId,
                          port |-> port, error |-> "Request canceled."])]
          /\ Len(events[sessions[key]]) < MaxChunks + 4
     ELSE UNCHANGED <<aborted, events>>
  /\ UNCHANGED <<sessions, pc, request, local, storage, started, histWrites, prevLen, loadedLen>>

\* the listener of the given port receives CANCEL_CHAT_STREAM: cancel is not
\* given the port
CancelOn(port, tabId, requestId) == Cancel(tabId, requestId)

\* ------------------------------------------------------ tab-state store
\* the mergeTabState calls of one behaviour
Merges == {"m1", "m2"}
\* a context and a code snapshot as the store sees them: opaque values
\* ("c0" and "s0" are the ones persisted for tab 1 when the behaviour starts)
Patches == {[context |-> "c1"], [codeSnapshot |-> "s1"]}

NoMerge == [pc |-> "idle", tabId |-> 0, patch |-> <<>>, read |-> <<>>]

\* a mutant of the object spread: the state read is dropped
Spread_PatchOnly(base, patch) ==
  [f \in {"context", "codeSnapshot"} |-> IF f \in DOMAIN patch THEN patch[f] ELSE "null"]

\* { ...base, ...patch }
Spread(base, patch) ==
  [f \in DOMAIN base \cup DOMAIN patch |-> IF f \in DOMAIN patch THEN patch[f] ELSE base[f]]

TabInit ==
  /\ merge = [m \in Merges |-> NoMerge]
  /\ closed = {}
  /\ lastPatch = [t \in Tabs |-> [context |-> "none", codeSnapshot |-> "none"]]

\* the one-shot bus receives CONTEXT_UPDATE or CODE_SNAPSHOT_UPDATE from a tab's
\* content script: mergeTabState runs up to its await of getTabState
MergeCall(m, tabId, patch) ==
  /\ merge[m].pc = "idle"
  /\ tabId \notin closed
  /\ merge' = [merge EXCEPT ![m] = [pc |-> "get", tabId |-> tabId, patch |-> patch, read |-> <<>>]]
  /\ UNCHANGED <<closed, lastPatch, storage>>

\* await getTabState(tabId) settles: next is built and storage.local.set is called
MergeRead(m) ==
  /\ merge[m].pc = "get"
  /\ \/ merge' = [merge EXCEPT ![m].pc = "failed"]
     \/ merge' = [merge EXCEPT ![m].pc = "set", ![m].read = getTabState(merge[m].tabId)]
  /\ UNCHANGED <<closed, lastPatch, storage>>

\* await chrome.storage.local.set settles: the whole object next is stored
MergeWrite(m) ==
  /\ merge[m].pc = "set"
  /\ \/ /\ merge' = [merge EXCEPT ![m].pc = "failed"]
        /\ UNCHANGED <<lastPatch, storage>>
     \/ /\ storage' = [storage EXCEPT !.tabState[merge[m].tabId] =
                         Stored(Spread(merge[m].read, merge[m].patch))]
        /\ lastPatch' = [lastPatch EXCEPT ![merge[m].tabId] = Spread(@, merge[m].patch)]
        /\ merge' = [merge EXCEPT ![m].pc = "done"]
  /\ UNCHANGED closed

\* chrome.tabs.onRemoved: the tab's history key and tab-state key are removed
\* (both removals are issued in the same turn; they are taken as one step)
TabRemoved(tabId) ==
  /\ tabId \notin closed
  /\ closed' = closed \cup {tabId}
  /\ storage' = [storage EXCEPT !.history[tabId] = Absent, !.tabState[tabId] = Absent]
  /\ UNCHANGED <<merge, lastPatch>>

\* ------------------------------------------ content script: context
\* scans of publishContextIfChanged (resp. publishes of either publisher) logged
MaxScans == 3
MaxRpcs == 3

\* description.slice(0, 1500)
SignaturePrefix == 1500

\* a description longer than the signature prefix, ending in the given character
LongDescription(last) == [i \in 1..SignaturePrefix |-> "x"] \o <<last>>

\* what extractProblemContext can return: a context (url, title, description as
\* sequences of characters) or null
Null == [url |-> <<>>, title |-> <<>>, description |-> <<>>, null |-> TRUE]

Contexts ==
  [url : {<<"u1">>}, title : {<<"t">>},
   description : {<<"d">>, LongDescription("y"), LongDescription("z")}, null : {FALSE}]
  \cup {[url |-> <<"u2">>, title |-> <<"t">>, description |-> <<"d">>, null |-> FALSE]}

\* a mutant of contextSignature: the whole description is part of the signature
contextSignature_WholeDescription(context) ==
  IF context.null THEN <<>>
  ELSE context.url \o <<"|">> \o context.title \o <<"|">> \o context.description

\* [url, title, description.slice(0, 1500)].join("|"), "" for null
contextSignature(context) ==
  IF context.null THEN <<>>
  ELSE context.url \o <<"|">> \o context.title \o <<"|">>
       \o SubSeq(context.description, 1, Min(Len(context.description), SignaturePrefix))


NullSnapshot == [source |-> "null", code |-> <<>>]

\* !force && signature === lastContextSignature
Unchanged(force, signature) == ~force /\ signature = lastContextSignature

ContextUpdate(context) == [type |-> "CONTEXT_UPDATE", context |-> context]

\* one call of publishContextIfChanged, up to its await of rpc: by the mutation
\* observer (force = false), or by a rescan instruction or a URL change (true)
publishContextIfChanged(force, context) ==
  /\ Len(scans) < MaxScans
  /\ IF context.null \/ Unchanged(force, contextSignature(context))
     THEN /\ scans' = Append(scans, [force |-> force, context |-> context,
                                     last |-> lastContextSignature, sent |-> FALSE])
          /\ UNCHANGED <<state, lastContextSignature, rpcs>>
     ELSE /\ lastContextSignature' = contextSignature(context)
          /\ state' = [state EXCEPT !.context = context]
          /\ rpcs' = Append(rpcs, ContextUpdate(context))
          /\ scans' = Append(scans, [force |-> force, context |-> context,
                                     last |-> lastContextSignature, sent |-> TRUE])
  /\ UNCHANGED <<page, bridgeMsgs>>

\* no rpc call has settled; the context held at load came from the tab state,
\* the last update that was stored
RpcInit ==
  acked = [settled |-> 0, ok |-> TRUE, signature |-> lastContextSignature]

\* the callback of chrome.runtime.sendMessage runs for the oldest rpc call that
\* is still awaited: the promise resolves with the response, or rejects on
\* lastError or on a response with ok false
RpcSettles(ok) ==
  /\ acked.settled < Len(rpcs)
  /\ LET message == rpcs[acked.settled + 1]
     IN acked' = [settled |-> acked.settled + 1,
                  ok |-> ok,
                  signature |-> IF ok /\ message.type = "CONTEXT_UPDATE"
                                THEN contextSignature(message.context)
                                ELSE acked.signature]
  /\ UNCHANGED contentVars

\* --------------------------------------- content script: code capture
\* detectTextareaSnapshot: the least trimmed length a textarea is captured at
MinTextareaLength == 8

\* window messages the page bridge may have in flight
MaxBridgeMsgs == 2

\* a text of the least length a textarea is captured at
LongText == [i \in 1..MinTextareaLength |-> "t"]

\* what the user may type into the editor: blank, short, or longer (the very
\* text of the page's textarea)
Codes == {<<" ">>, <<"x">>, LongText}

\* the hosting page: the kind of editor it embeds ("none" when it has none),
\* whether the editor object is reachable from page scripts (api), whether its
\* lines are rendered in the DOM, the editor's text, the value of Monaco's input
\* area, and the value of the longest plain textarea
Pages ==
  { [kind |-> "monaco", api |-> TRUE, rendered |-> TRUE, code |-> <<"x">>,
     inputarea |-> <<>>, textarea |-> LongText],
    [kind |-> "monaco", api |-> TRUE, rendered |-> FALSE, code |-> <<"x">>,
     inputarea |-> <<"x">>, textarea |-> LongText],
    [kind |-> "codemirror", api |-> FALSE, rendered |-> TRUE, code |-> <<"x">>,
     inputarea |-> <<>>, textarea |-> <<"t">>],
    [kind |-> "none", api |-> FALSE, rendered |-> FALSE, code |-> <<>>,
     inputarea |-> <<>>, textarea |-> LongText],
    [kind |-> "none", api |-> FALSE, rendered |-> FALSE, code |-> <<>>,
     inputarea |-> <<>>, textarea |-> <<" ">>] }

\* page bridge, tryMonaco / tryCodeMirror: the editor object's text when it is
\* reachable, else the rendered lines, trimmed; NullSnapshot when neither is there
bridgeCapture(pg) ==
  IF pg.kind = "none" THEN NullSnapshot
  ELSE IF pg.api /\ Trim(pg.code) # <<>> THEN [source |-> pg.kind, code |-> pg.code]
  ELSE IF pg.rendered /\ Trim(pg.code) # <<>> THEN [source |-> pg.kind, code |-> Trim(pg.code)]
  ELSE NullSnapshot

\* page bridge, scan: the CODE_SNAPSHOT messages one scan posts, in order
\* (CODE_SNAPSHOT_UNAVAILABLE is dropped by the listener and left out)
scan(pg) ==
  (IF pg.kind = "monaco" /\ Trim(pg.inputarea) # <<>>
   THEN << [source |-> "monaco", code |-> pg.inputarea] >> ELSE <<>>)
  \o (IF bridgeCapture(pg) # NullSnapshot THEN << bridgeCapture(pg) >> ELSE <<>>)

\* detectDomEditorSnapshot: the rendered lines of a recognised editor, trimmed
detectDomEditorSnapshot(pg) ==
  IF pg.kind # "none" /\ pg.rendered /\ Trim(pg.code) # <<>>
  THEN [source |-> pg.kind, code |-> Trim(pg.code)]
  ELSE NullSnapshot

\* detectTextareaSnapshot: the longest textarea, if its trimmed length is >= 8
detectTextareaSnapshot(pg) ==
  IF Len(Trim(pg.textarea)) < MinTextareaLength THEN NullSnapshot
  ELSE [source |-> "textarea", code |-> pg.textarea]

\* detectDomEditorSnapshot() || detectTextareaSnapshot()
domOrTextarea(pg) ==
  IF detectDomEditorSnapshot(pg) # NullSnapshot THEN detectDomEditorSnapshot(pg)
  ELSE detectTextareaSnapshot(pg)

\* a mutant of the equality test: a read from the held source is never new
sameAsHeld_SourceOnly(snapshot) == state.codeSnapshot.source = snapshot.source

\* state.codeSnapshot?.code === snapshot.code && ...?.source === snapshot.source
sameAsHeld(snapshot) ==
  state.codeSnapshot.code = snapshot.code /\ state.codeSnapshot.source = snapshot.source

\* the request publishCodeSnapshot sends; held and page are history: the
\* snapshot held, and the page, when it was sent
CodeSnapshotUpdate(snapshot) ==
  [type |-> "CODE_SNAPSHOT_UPDATE", snapshot |-> snapshot,
   held |-> state.codeSnapshot, page |-> page]

\* a mutant of publishCodeSnapshot: a whitespace-only snapshot is published too
publishCodeSnapshot_NoBlankCheck(snapshot) ==
  IF snapshot = NullSnapshot \/ sameAsHeld(snapshot)
  THEN UNCHANGED <<state, rpcs>>
  ELSE /\ state' = [state EXCEPT !.codeSnapshot = snapshot]
       /\ rpcs' = Append(rpcs, CodeSnapshotUpdate(snapshot))

\* publishCodeSnapshot, up to its await of rpc
publishCodeSnapshot(snapshot) ==
  IF snapshot = NullSnapshot \/ Trim(snapshot.code) = <<>> \/ sameAsHeld(snapshot)
  THEN UNCHANGED <<state, rpcs>>
  ELSE /\ state' = [state EXCEPT !.codeSnapshot = snapshot]
       /\ rpcs' = Append(rpcs, CodeSnapshotUpdate(snapshot))

\* the page bridge's timer, or a REQUEST_CODE_SNAPSHOT message, runs scan
BridgeScan ==
  /\ Len(bridgeMsgs) + Len(scan(page)) <= MaxBridgeMsgs
  /\ scan(page) # <<>>
  /\ bridgeMsgs' = bridgeMsgs \o scan(page)
  /\ UNCHANGED <<state, lastContextSignature, rpcs, scans, page>>

\* the bridge listener receives the oldest message and publishes its snapshot
BridgeDeliver ==
  /\ bridgeMsgs # <<>>
  /\ Len(rpcs) < MaxRpcs
  /\ bridgeMsgs' = Tail(bridgeMsgs)
  /\ publishCodeSnapshot(Head(bridgeMsgs))
  /\ UNCHANGED <<lastContextSignature, scans, page>>

\* the content script's timer: publishCodeSnapshot(dom || textarea)
ContentScan ==
  /\ Len(rpcs) < MaxRpcs
  /\ publishCodeSnapshot(domOrTextarea(page))
  /\ UNCHANGED <<lastContextSignature, scans, page, bridgeMsgs>>

\* the user edits the code in the page's editor
EditCode(code) ==
  /\ page.kind # "none"
  /\ page.code # code
  /\ page' = [page EXCEPT !.code = code]
  /\ UNCHANGED <<state, lastContextSignature, rpcs, scans, bridgeMsgs>>

\* onManualCodeSnapshot(code), the callback the widget calls with the text of its
\* manual-code dialog
ManualEntry(code) ==
  /\ Len(rpcs) < MaxRpcs
  /\ IF code = <<>> THEN UNCHANGED <<state, rpcs>>
     ELSE publishCodeSnapshot([source |-> "manual", code |-> code])
  /\ UNCHANGED <<lastContextSignature, scans, page, bridgeMsgs>>

\* ------------------------------------------------- in-page chat UI
\* the tab the content script runs in (sender.tab.id of its messages)
ContentTab == 2

\* the request ids createRequestId hands out, in order: no two are equal
RequestIds == <<"r1", "r2">>

\* number of port messages that may be in flight in one direction
MaxPortMsgs == 1

NoRequestId == ""

NoEvent == [type |-> "none", requestId |-> NoRequestId]

UserItem(text) == [role |-> "user", content |-> text]
AssistantItem(text) == [role |-> "assistant", content |-> text]

\* the fields of `state` the chat uses, statusText/statusType, and the number
\* of request ids created so far
UiInit ==
  /\ ui = [history |-> <<>>, sending |-> FALSE, requestId |-> NoRequestId,
           statusText |-> "Scanning page...", statusType |-> "warn", created |-> 0]
  /\ toBg = <<>>
  /\ toUi = <<>>
  /\ lastReceived = NoEvent

createRequestId == RequestIds[ui.created + 1]

\* a mutant of sendMessage: it does not look at the sending flag
sendMessage_WhileSending(text) ==
  /\ ui.created < Len(RequestIds)
  /\ Len(toBg) < MaxPortMsgs
  /\ IF Trim(text) = <<>>
     THEN UNCHANGED <<ui, toBg>>
     ELSE /\ ui' = [ui EXCEPT !.sending = TRUE,
                              !.requestId = createRequestId,
                              !.history = @ \o <<UserItem(Trim(text)), AssistantItem(<<>>)>>,
                              !.statusText = "Sending...",
                              !.statusType = "warn",
                              !.created = @ + 1]
          /\ toBg' = Append(toBg, [type |-> "SEND_CHAT_STREAM", tabId |-> ContentTab,
                                   requestId |-> createRequestId, text |-> Trim(text)])
  /\ UNCHANGED <<toUi, lastReceived>>

\* sendMessage: returns at once on blank text or while a request is tracked
sendMessage(text) ==
  /\ ui.created < Len(RequestIds)
  /\ Len(toBg) < MaxPortMsgs
  /\ IF Trim(text) = <<>> \/ ui.sending
     THEN UNCHANGED <<ui, toBg>>
     ELSE /\ ui' = [ui EXCEPT !.sending = TRUE,
                              !.requestId = createRequestId,
                              !.history = @ \o <<UserItem(Trim(text)), AssistantItem(<<>>)>>,
                              !.statusText = "Sending...",
                              !.statusType = "warn",
                              !.created = @ + 1]
          /\ toBg' = Append(toBg, [type |-> "SEND_CHAT_STREAM", tabId |-> ContentTab,
                                   requestId |-> createRequestId, text |-> Trim(text)])
  /\ UNCHANGED <<toUi, lastReceived>>

\* cancelMessage: posts CANCEL for the tracked request, changes no state
cancelMessage ==
  /\ Len(toBg) < MaxPortMsgs
  /\ IF ui.requestId = NoRequestId
     THEN UNCHANGED toBg
     ELSE toBg' = Append(toBg, [type |-> "CANCEL_CHAT_STREAM", tabId |-> ContentTab,
                                requestId |-> ui.requestId, text |-> <<>>])
  /\ UNCHANGED <<ui, toUi, lastReceived>>

\* appendStreamChunk: grows the last item when it is the assistant's
appendStreamChunk(history, chunk) ==
  IF history # <<>> /\ history[Len(history)].role = "assistant"
  THEN [history EXCEPT ![Len(history)].content = @ \o chunk]
  ELSE history

\* a mutant of the STREAM_ERROR branch: the placeholder stays
dropEmptyAssistant_Never(history) == history

\* STREAM_ERROR drops the placeholder the UI appended when it is still empty
dropEmptyAssistant(history) ==
  IF history # <<>> /\ history[Len(history)] = AssistantItem(<<>>)
  THEN SubSeq(history, 1, Len(history) - 1)
  ELSE history

\* a listener that lacks the requestId check
ForTrackedRequest_Always(message) == TRUE

\* the check that opens the port.onMessage listener: a request is tracked and
\* the event carries its id
ForTrackedRequest(message) ==
  ui.requestId # NoRequestId /\ message.requestId = ui.requestId

\* the state the listener leaves after one stream event
Listener(message) ==
  IF ~ForTrackedRequest(message) THEN ui
  ELSE CASE message.type = "STREAM_START" ->
              [ui EXCEPT !.statusText = "Streaming...", !.statusType = "ok"]
         [] message.type = "STREAM_CHUNK" ->
              [ui EXCEPT !.history = appendStreamChunk(@, message.chunk)]
         [] message.type = "STREAM_DONE" ->
              [ui EXCEPT !.history = message.history, !.sending = FALSE,
                         !.requestId = NoRequestId,
                         !.statusText = "Ready", !.statusType = "ok"]
         [] message.type = "STREAM_ERROR" ->
              \* statusText is "Error: " followed by message.error
              [ui EXCEPT !.history = dropEmptyAssistant(@), !.sending = FALSE,
                         !.requestId = NoRequestId,
                         !.statusText = message.error, !.statusType = "error"]

\* the port delivers its oldest event to the listener
Receive ==
  /\ toUi # <<>>
  /\ ui' = Listener(Head(toUi))
  /\ toUi' = Tail(toUi)
  /\ lastReceived' = Head(toUi)
  /\ UNCHANGED toBg

\* ------------------------------------------------- one-shot message bus
\* sender.tab.id or message.tabId when there is none
NoTab == 0

\* temperatures in tenths: 0.2 is 2, the range [0,1] is 0..10
FIXED_TEMPERATURE == 2
DefaultTemperature == 2
MinTemperature == 0
MaxTemperature == 10
Temperatures == {-10, 0, 5, 10, 50}

\* clampNumber on finite numbers (the fallback is for values that are not)
clampNumber(value, min, max, fallback) ==
  IF value > max THEN max ELSE IF value < min THEN min ELSE value

\* getSettings: { ...DEFAULT_SETTINGS, ...saved }
getSettings == Spread(Spread(DEFAULT_SETTINGS, [temperature |-> DefaultTemperature]),
                      storage.settings)

\* a mutant of saveSettings that keeps the temperature it is given
saveSettings_KeepsTemperature(current, partial) == Spread(current, partial)

\* saveSettings of the background: next = { ...current, ...partial, temperature:
\* FIXED_TEMPERATURE, ... }
saveSettings(current, partial) ==
  Spread(Spread(current, partial), [temperature |-> FIXED_TEMPERATURE])

\* saveSettings of the legacy background: built from the given settings alone
legacySaveSettings(settings) ==
  [apiKey |-> IF "apiKey" \in DOMAIN settings THEN settings.apiKey ELSE "",
   temperature |-> clampNumber(settings.temperature, MinTemperature, MaxTemperature,
                               DefaultTemperature)]

\* the requests the bus is sent
BusMessages ==
  [type : {"GET_SETTINGS", "GET_SENDER_TAB", "PING"}, tabId : {NoTab}]
  \cup [type : {"GET_CHAT_HISTORY", "CLEAR_CHAT_HISTORY"}, tabId : {1}]
  \cup [type : {"GET_TAB_STATE", "RESCAN_CONTEXT"}, tabId : {NoTab, 1}]
  \cup [type : {"SAVE_SETTINGS"}, tabId : {NoTab}, legacy : BOOLEAN,
        settings : [temperature : Temperatures]]
  \cup {[type |-> "CONTEXT_UPDATE", tabId |-> NoTab, patch |-> [context |-> "c1"]],
        [type |-> "CODE_SNAPSHOT_UPDATE", tabId |-> NoTab, patch |-> [codeSnapshot |-> "s1"]]}

BusInit ==
  bus = [pc |-> "idle", message |-> [type |-> "none"], tabId |-> NoTab,
         outcome |-> [error |-> "none"], failed |-> FALSE, responses |-> <<>>,
         before |-> <<>>]

\* sendResponse({ ok: true, ...payload })
Fulfilment_Bare(payload) == payload

Fulfilment(payload) == Spread([ok |-> TRUE], payload)

\* sendResponse({ ok: false, error: error.message || String(error) })
Failure(error) == [ok |-> FALSE, error |-> error]

\* the position the handler reaches in the turn the request arrives: at its
\* first await, or settled when it returns or throws before one
Dispatch(message, sender) ==
  LET tabId == IF message.tabId # NoTab THEN message.tabId ELSE sender
      at(p) == [pc |-> p, outcome |-> [error |-> "none"]]
      throw(e) == [pc |-> "rejected", outcome |-> [error |-> e]]
      return(v) == [pc |-> "fulfilled", outcome |-> v]
  IN CASE message.type = "GET_SETTINGS" -> at("getSettings")
       [] message.type = "SAVE_SETTINGS" ->
            IF message.legacy
            THEN [pc |-> "setSettings", outcome |-> legacySaveSettings(message.settings)]
            ELSE at("saveSettings")
       [] message.type = "GET_CHAT_HISTORY" -> at("getHistory")
       [] message.type = "CLEAR_CHAT_HISTORY" -> at("clearHistory")
       [] message.type = "GET_SENDER_TAB" -> return([tabId |-> sender])
       [] message.type = "CONTEXT_UPDATE" ->
            IF sender = NoTab THEN throw("Context update without tab.")
            ELSE at("mergeTabState")
       [] message.type = "CODE_SNAPSHOT_UPDATE" ->
            IF sender = NoTab THEN throw("Code snapshot update without tab.")
            ELSE at("mergeTabState")
       [] message.type = "GET_TAB_STATE" ->
            IF tabId = NoTab
            THEN return([tabId |-> NoTab,
                         state |-> [context |-> "null", codeSnapshot |-> "null"]])
            ELSE at("getTabState")
       [] message.type = "RESCAN_CONTEXT" ->
            IF tabId = NoTab THEN throw("No tab to rescan.") ELSE at("rescan")
       [] OTHER -> throw("Unknown message type.")

\* chrome.runtime.onMessage listener: the async handler runs up to its first await
BusRequest(message, sender) ==
  /\ bus.pc \in {"idle", "responded"}
  /\ merge["m1"].pc = "idle"
  /\ LET d == Dispatch(message, sender)
     IN /\ bus' = [pc |-> d.pc, message |-> message,
                   tabId |-> IF message.tabId # NoTab THEN message.tabId ELSE sender,
                   outcome |-> d.outcome, failed |-> FALSE, responses |-> <<>>,
                   before |-> storage]
        /\ IF d.pc = "mergeTabState"
           THEN MergeCall("m1", sender, message.patch)
           ELSE UNCHANGED <<merge, closed, lastPatch, storage>>

\* an awaited store or tab call rejects: the handler's promise rejects with it
BusAwaitRejects ==
  /\ bus.pc \in {"getSettings", "saveSettings", "setSettings", "getHistory",
                 "clearHistory", "getTabState", "rescan"}
  /\ bus' = [bus EXCEPT !.pc = "rejected", !.outcome = [error |-> "store failure"],
                        !.failed = TRUE]
  /\ UNCHANGED <<storage, merge, closed, lastPatch>>

\* an awaited store or tab call resolves: the handler goes on to its next await,
\* or returns its payload
BusAwaitResolves ==
  /\ CASE bus.pc = "getSettings" ->
            /\ bus' = [bus EXCEPT !.pc = "fulfilled", !.outcome = [settings |-> getSettings]]
            /\ UNCHANGED storage
       [] bus.pc = "saveSettings" ->
            /\ bus' = [bus EXCEPT !.pc = "setSettings",
                                  !.outcome = saveSettings(getSettings, bus.message.settings)]
            /\ UNCHANGED storage
       [] bus.pc = "setSettings" ->
            /\ storage' = [storage EXCEPT !.settings = bus.outcome]
            /\ bus' = [bus EXCEPT !.pc = "fulfilled", !.outcome = [settings |-> bus.outcome]]
       [] bus.pc = "getHistory" ->
            /\ bus' = [bus EXCEPT !.pc = "fulfilled",
                                  !.outcome = [tabId |-> bus.tabId,
                                               history |-> getHistory(bus.tabId)]]
            /\ UNCHANGED storage
       [] bus.pc = "clearHistory" ->
            /\ storage' = [storage EXCEPT !.history[bus.tabId] = Absent]
            /\ bus' = [bus EXCEPT !.pc = "fulfilled",
                                  !.outcome = [tabId |-> bus.tabId, history |-> <<>>]]
       [] bus.pc = "getTabState" ->
            /\ bus' = [bus EXCEPT !.pc = "fulfilled",
                                  !.outcome = [tabId |-> bus.tabId,
                                               state |-> getTabState(bus.tabId)]]
            /\ UNCHANGED storage
       [] bus.pc = "rescan" ->
            /\ \E context \in {"null", "c1"} :
                 bus' = [bus EXCEPT !.pc = "fulfilled",
                                    !.outcome = [tabId |-> bus.tabId, context |-> context]]
            /\ UNCHANGED storage
       [] OTHER -> FALSE
  /\ UNCHANGED <<merge, closed, lastPatch>>

\* await mergeTabState(...) settles in the CONTEXT_UPDATE and CODE_SNAPSHOT_UPDATE
\* cases
BusMergeSettles ==
  /\ bus.pc = "mergeTabState"
  /\ merge["m1"].pc \in {"done", "failed"}
  /\ LET next == Spread(merge["m1"].read, merge["m1"].patch)
     IN bus' = IF merge["m1"].pc = "failed"
               THEN [bus EXCEPT !.pc = "rejected", !.outcome = [error |-> "store failure"],
                                !.failed = TRUE]
               ELSE [bus EXCEPT !.pc = "fulfilled",
                                !.outcome = IF bus.message.type = "CONTEXT_UPDATE"
                                            THEN [tabId |-> bus.tabId, context |-> next.context]
                                            ELSE [tabId |-> bus.tabId,
                                                  snapshot |-> next.codeSnapshot]]
  /\ merge' = [merge EXCEPT !["m1"] = NoMerge]
  /\ UNCHANGED <<storage, closed, lastPatch>>

\* .then(...) or .catch(...) of the handler's promise calls sendResponse
BusRespond ==
  /\ bus.pc \in {"fulfilled", "rejected"}
  /\ bus' = [bus EXCEPT !.pc = "responded",
                        !.responses = Append(@, IF bus.pc = "fulfilled"
                                                THEN Fulfilment(bus.outcome)
                                                ELSE Failure(bus.outcome.error))]
  /\ UNCHANGED <<storage, merge, closed, lastPatch>>

\* ------------------------------------------------- buildSystemPrompt
\* a line of text is a tuple of its pieces; <<"">> is the empty line
CoachingStyles == {"interviewer", "collaborative", "socratic"}
PersonaModes == {"undefined", "collaborator", "interviewer"}
ResponseStyles == {"concise", "balanced", "detailed"}
Overrides == {<<>>, <<" ">>, <<"q">>, <<" ", "q">>}

NoContext == [null |-> TRUE]
PromptContexts ==
  {NoContext,
   [null |-> FALSE, site |-> "leetcode", url |-> "u", title |-> "t", description |-> "d",
    constraints |-> "c", examples |-> "e", confidence |-> 90],
   [null |-> FALSE, site |-> "generic", url |-> "u", title |-> "", description |-> "",
    constraints |-> "", examples |-> "", confidence |-> 10]}

NoCode == [null |-> TRUE]
PromptCodes ==
  {NoCode,
   [null |-> FALSE, source |-> "monaco", language |-> "py", code |-> <<"x", " ">>,
    selection |-> "1-2"],
   [null |-> FALSE, source |-> "textarea", language |-> "", code |-> <<" ">>,
    selection |-> ""]}

resolveCoachingInstruction(style, personaMode) ==
  IF personaMode = "collaborator" THEN <<<<"You are a collaborative coding partner.">>>>
  ELSE IF personaMode = "interviewer" THEN <<<<"You are a strict technical interviewer.">>>>
  ELSE IF style = "collaborative" THEN <<<<"You are a collaborative coding coach.">>>>
  ELSE IF style = "socratic" THEN <<<<"You are a Socratic coding coach.">>>>
  ELSE <<<<"You are a mock technical interviewer and reasoning coach.">>>>

responseInstruction(style) ==
  IF style = "concise" THEN <<<<"Keep responses concise and high signal.">>>>
  ELSE IF style = "detailed" THEN <<<<"Use detailed step-by-step reasoning.">>>>
  ELSE <<<<"Balance concise guidance with enough detail.">>>>

\* value || fallback on strings
OrDefault(value, fallback) == IF value = "" THEN fallback ELSE value

NoContextText == <<<<"No parsed problem context was found.">>>>

contextText(context) ==
  IF context.null THEN NoContextText
  ELSE << <<"Site: ", context.site>>, <<"URL: ", context.url>>,
          <<"Title: ", OrDefault(context.title, "Unknown")>>,
          <<"">>,
          <<"Problem Statement:">>, <<OrDefault(context.description, "(missing)")>>,
          <<"">>,
          <<"Constraints:">>, <<OrDefault(context.constraints, "(none)")>>,
          <<"">>,
          <<"Examples:">>, <<OrDefault(context.examples, "(none)")>>,
          <<"">>,
          <<"Extraction Confidence: ", ToString(context.confidence), "%">> >>

\* the line of three backquotes that opens and closes the code block
Fence == <<"fence">>

NoCodeText == <<<<"No code snapshot available yet.">>>>

codeText(code) ==
  IF code.null \/ Trim(code.code) = <<>> THEN NoCodeText
  ELSE << <<"Current Code Snapshot:">>, <<"Source: ", code.source>>,
          <<"Language: ", OrDefault(code.language, "unknown")>>,
          <<"Selection: ", OrDefault(code.selection, "none")>>,
          Fence, code.code, Fence >>

\* the custom fragment as a section: its one line, or no line when it is empty
fragment(text) == IF text = <<>> THEN <<>> ELSE <<text>>

\* a mutant of filter(Boolean): every section is kept
filterBoolean_KeepsAll(sections) == sections

\* sections.filter(Boolean): the empty strings are dropped
RECURSIVE filterBoolean(_)
filterBoolean(sections) ==
  IF sections = <<>> THEN <<>>
  ELSE IF Head(sections) = <<>> THEN filterBoolean(Tail(sections))
       ELSE <<Head(sections)>> \o filterBoolean(Tail(sections))

\* sections.join("\n\n"): an empty line between two sections
RECURSIVE joinBlankLine(_)
joinBlankLine(sections) ==
  IF sections = <<>> THEN <<>>
  ELSE IF Len(sections) = 1 THEN sections[1]
       ELSE sections[1] \o <<<<"">>>> \o joinBlankLine(Tail(sections))

buildSystemPrompt(context, code, settings, personaMode) ==
  joinBlankLine(filterBoolean(
    << resolveCoachingInstruction(settings.coachingStyle, personaMode),
       responseInstruction(settings.responseStyle),
       fragment(Trim(settings.systemPromptOverride)),
       contextText(context),
       codeText(code) >>))

PromptInit ==
  prompt = [built |-> FALSE]

\* a start call builds the system prompt of its request, once, from the
\* resolved context and code snapshot and the settings
BuildSystemPrompt(context, code, settings, personaMode) ==
  /\ ~prompt.built
  /\ prompt' = [built |-> TRUE, context |-> context, code |-> code,
                settings |-> settings,
                personaMode |-> personaMode,
                text |-> buildSystemPrompt(context, code, settings, personaMode)]

\* the content script before its first scan; hydrateTabState has run when a
\* context was persisted for the tab
ContentInit(context, pg) ==
  /\ state = [context |-> context, codeSnapshot |-> NullSnapshot]
  /\ lastContextSignature = contextSignature(context)
  /\ rpcs = <<>>
  /\ scans = <<>>
  /\ page = pg
  /\ bridgeMsgs = <<>>
  /\ UiInit
  /\ BusInit
  /\ PromptInit
  /\ RpcInit

\* ------------------------------------------------------- specifications
\* a page with nothing to capture
BlankPage ==
  [kind |-> "none", api |-> FALSE, rendered |-> FALSE, code |-> <<>>,
   inputarea |-> <<>>, textarea |-> <<" ">>]

Init == StreamInit /\ TabInit /\ ContentInit(Null, BlankPage)

streamRest == <<sessions, pc, request, aborted, local, events, started,
                histWrites, prevLen, loadedLen>>

\* two start calls and cancels, in any interleaving
Next ==
  \* request ids are interchangeable names: the first call takes "r1"
  \/ \E c \in Calls, t \in Tabs, r \in ReqIds, p \in Ports, x \in Texts :
       (c = 1 => r = "r1") /\ StartCall(c, t, r, p, x) /\ UNCHANGED <<tabVars, contentVars, uiVars, busVars, promptVars, rpcVars>>
  \/ \E c \in Calls : GetSettings(c) /\ UNCHANGED <<tabVars, contentVars, uiVars, busVars, promptVars, rpcVars>>
  \/ \E c \in Calls : GetTabState(c) /\ UNCHANGED <<tabVars, contentVars, uiVars, busVars, promptVars, rpcVars>>
  \/ \E c \in Calls : GetHistory(c) /\ UNCHANGED <<tabVars, contentVars, uiVars, busVars, promptVars, rpcVars>>
  \/ \E c \in Calls : StreamText(c) /\ UNCHANGED <<tabVars, contentVars, uiVars, busVars, promptVars, rpcVars>>
  \/ \E c \in Calls, d \in Deltas : ReadDelta(c, d) /\ UNCHANGED <<tabVars, contentVars, uiVars, busVars, promptVars, rpcVars>>
  \/ \E c \in Calls : ReadThrow(c) /\ UNCHANGED <<tabVars, contentVars, uiVars, busVars, promptVars, rpcVars>>
  \/ \E c \in Calls : ReadEnd(c) /\ UNCHANGED <<tabVars, contentVars, uiVars, busVars, promptVars, rpcVars>>
  \/ \E c \in Calls : IncrementTokenCounter(c) /\ UNCHANGED <<tabVars, contentVars, uiVars, busVars, promptVars, rpcVars>>
  \/ \E c \in Calls : SetHistory(c) /\ UNCHANGED <<tabVars, contentVars, uiVars, busVars, promptVars, rpcVars>>
  \/ \E c \in Calls : EmitDone(c) /\ UNCHANGED <<tabVars, contentVars, uiVars, busVars, promptVars, rpcVars>>
  \/ \E t \in Tabs, r \in ReqIds : Cancel(t, r) /\ UNCHANGED <<tabVars, contentVars, uiVars, busVars, promptVars, rpcVars>>

Spec == Init /\ [][Next]_vars

\* deltas the text stream of SpecStream yields at most
MaxStream == 3

\* one start call reading a text stream of several deltas, and cancels
StreamNext ==
  \/ \E t \in Tabs, x \in Texts :
       StartCall(1, t, "r1", "p1", x) /\ UNCHANGED <<tabVars, contentVars, uiVars, busVars, promptVars, rpcVars>>
  \/ GetSettings(1) /\ UNCHANGED <<tabVars, contentVars, uiVars, busVars, promptVars, rpcVars>>
  \/ GetTabState(1) /\ UNCHANGED <<tabVars, contentVars, uiVars, busVars, promptVars, rpcVars>>
  \/ GetHistory(1) /\ UNCHANGED <<tabVars, contentVars, uiVars, busVars, promptVars, rpcVars>>
  \/ StreamText(1) /\ UNCHANGED <<tabVars, contentVars, uiVars, busVars, promptVars, rpcVars>>
  \/ \E d \in Deltas : ReadDeltaUpTo(1, d, MaxStream) /\ UNCHANGED <<tabVars, contentVars, uiVars, busVars, promptVars, rpcVars>>
  \/ ReadThrow(1) /\ UNCHANGED <<tabVars, contentVars, uiVars, busVars, promptVars, rpcVars>>
  \/ ReadEnd(1) /\ UNCHANGED <<tabVars, contentVars, uiVars, busVars, promptVars, rpcVars>>
  \/ IncrementTokenCounter(1) /\ UNCHANGED <<tabVars, contentVars, uiVars, busVars, promptVars, rpcVars>>
  \/ SetHistory(1) /\ UNCHANGED <<tabVars, contentVars, uiVars, busVars, promptVars, rpcVars>>
  \/ EmitDone(1) /\ UNCHANGED <<tabVars, contentVars, uiVars, busVars, promptVars, rpcVars>>
  \/ \E t \in Tabs : Cancel(t, "r1") /\ UNCHANGED <<tabVars, contentVars, uiVars, busVars, promptVars, rpcVars>>

SpecStream == Init /\ [][StreamNext]_vars

\* one start call, two tab-state merges, tab removal and cancels; requests and
\* updates come from tabs that are open
TabNext ==
  \/ \E t \in Tabs \ closed :
       StartCall(1, t, "r1", "p1", <<"q">>) /\ UNCHANGED <<tabVars, contentVars, uiVars, busVars, promptVars, rpcVars>>
  \/ GetSettings(1) /\ UNCHANGED <<tabVars, contentVars, uiVars, busVars, promptVars, rpcVars>>
  \/ GetTabState(1) /\ UNCHANGED <<tabVars, contentVars, uiVars, busVars, promptVars, rpcVars>>
  \/ GetHistory(1) /\ UNCHANGED <<tabVars, contentVars, uiVars, busVars, promptVars, rpcVars>>
  \/ StreamText(1) /\ UNCHANGED <<tabVars, contentVars, uiVars, busVars, promptVars, rpcVars>>
  \/ \E d \in Deltas : ReadDelta(1, d) /\ UNCHANGED <<tabVars, contentVars, uiVars, busVars, promptVars, rpcVars>>
  \/ ReadThrow(1) /\ UNCHANGED <<tabVars, contentVars, uiVars, busVars, promptVars, rpcVars>>
  \/ ReadEnd(1) /\ UNCHANGED <<tabVars, contentVars, uiVars, busVars, promptVars, rpcVars>>
  \/ IncrementTokenCounter(1) /\ UNCHANGED <<tabVars, contentVars, uiVars, busVars, promptVars, rpcVars>>
  \/ SetHistory(1) /\ UNCHANGED <<tabVars, contentVars, uiVars, busVars, promptVars, rpcVars>>
  \/ EmitDone(1) /\ UNCHANGED <<tabVars, contentVars, uiVars, busVars, promptVars, rpcVars>>
  \/ \E t \in Tabs : Cancel(t, "r1") /\ UNCHANGED <<tabVars, contentVars, uiVars, busVars, promptVars, rpcVars>>
  \/ \E m \in Merges, t \in Tabs, patch \in Patches :
       MergeCall(m, t, patch) /\ UNCHANGED <<streamRest, contentVars, uiVars, busVars, promptVars, rpcVars>>
  \/ \E m \in Merges : MergeRead(m) /\ UNCHANGED <<streamRest, contentVars, uiVars, busVars, promptVars, rpcVars>>
  \/ \E m \in Merges : MergeWrite(m) /\ UNCHANGED <<streamRest, contentVars, uiVars, busVars, promptVars, rpcVars>>
  \/ \E t \in Tabs : TabRemoved(t) /\ UNCHANGED <<streamRest, contentVars, uiVars, busVars, promptVars, rpcVars>>

SpecTab == Init /\ [][TabNext]_vars

\* two tab-state merges of open tabs, in any interleaving
MergeNext ==
  \/ \E m \in Merges, t \in Tabs, patch \in Patches :
       MergeCall(m, t, patch) /\ UNCHANGED <<streamRest, contentVars, uiVars, busVars, promptVars, rpcVars>>
  \/ \E m \in Merges : MergeRead(m) /\ UNCHANGED <<streamRest, contentVars, uiVars, busVars, promptVars, rpcVars>>
  \/ \E m \in Merges : MergeWrite(m) /\ UNCHANGED <<streamRest, contentVars, uiVars, busVars, promptVars, rpcVars>>

SpecMerge == Init /\ [][MergeNext]_vars

\* the content script of one tab scanning for the problem context
ContextInit ==
  /\ StreamInit /\ TabInit
  /\ \E context \in {Null, [url |-> <<"u1">>, title |-> <<"t">>,
                            description |-> <<"d">>, null |-> FALSE]} :
       ContentInit(context, BlankPage)

ContextNext ==
  \E force \in BOOLEAN, context \in Contexts \cup {Null} :
    publishContextIfChanged(force, context) /\ UNCHANGED <<streamVars, tabVars, uiVars, busVars, promptVars, rpcVars>>

SpecContext == ContextInit /\ [][ContextNext]_vars

\* the context publisher with the outcome of each CONTEXT_UPDATE call
ContextRpcNext ==
  \/ \E force \in BOOLEAN, context \in Contexts \cup {Null} :
       publishContextIfChanged(force, context) /\ UNCHANGED <<streamVars, tabVars, uiVars, busVars, promptVars, rpcVars>>
  \/ \E ok \in BOOLEAN :
       RpcSettles(ok) /\ UNCHANGED <<streamVars, tabVars, uiVars, busVars, promptVars>>

SpecContextRpc == ContextInit /\ [][ContextRpcNext]_vars

\* the page bridge and the content script of one tab capturing code
CaptureInit ==
  /\ StreamInit /\ TabInit
  /\ \E pg \in Pages : ContentInit(Null, pg)

CaptureNext ==
  \/ BridgeScan /\ UNCHANGED <<streamVars, tabVars, uiVars, busVars, promptVars, rpcVars>>
  \/ BridgeDeliver /\ UNCHANGED <<streamVars, tabVars, uiVars, busVars, promptVars, rpcVars>>
  \/ ContentScan /\ UNCHANGED <<streamVars, tabVars, uiVars, busVars, promptVars, rpcVars>>
  \/ \E code \in Codes : EditCode(code) /\ UNCHANGED <<streamVars, tabVars, uiVars, busVars, promptVars, rpcVars>>

SpecCapture == CaptureInit /\ [][CaptureNext]_vars

\* the background's one-shot bus takes the oldest request the content script sent
RpcTake ==
  /\ rpcs # <<>>
  /\ rpcs' = Tail(rpcs)
  /\ UNCHANGED <<state, lastContextSignature, scans, page, bridgeMsgs>>

\* code capture on a page whose editor content no longer changes
QuietNext ==
  \/ BridgeScan /\ UNCHANGED <<streamVars, tabVars, uiVars, busVars, promptVars, rpcVars>>
  \/ BridgeDeliver /\ UNCHANGED <<streamVars, tabVars, uiVars, busVars, promptVars, rpcVars>>
  \/ ContentScan /\ UNCHANGED <<streamVars, tabVars, uiVars, busVars, promptVars, rpcVars>>
  \/ RpcTake /\ UNCHANGED <<streamVars, tabVars, uiVars, busVars, promptVars, rpcVars>>

\* both timers keep firing, window messages and runtime messages are delivered
SpecQuiet ==
  /\ CaptureInit /\ [][QuietNext]_vars
  /\ WF_vars(BridgeScan /\ UNCHANGED <<streamVars, tabVars, uiVars, busVars, promptVars, rpcVars>>)
  /\ WF_vars(BridgeDeliver /\ UNCHANGED <<streamVars, tabVars, uiVars, busVars, promptVars, rpcVars>>)
  /\ WF_vars(ContentScan /\ UNCHANGED <<streamVars, tabVars, uiVars, busVars, promptVars, rpcVars>>)
  /\ WF_vars(RpcTake /\ UNCHANGED <<streamVars, tabVars, uiVars, busVars, promptVars, rpcVars>>)


\* the one-shot bus receives what the publisher sent in this step, if anything:
\* the CODE_SNAPSHOT_UPDATE handler calls mergeTabState with the snapshot
\* (chrome.runtime.sendMessage delivers later; until its first await settles the
\* handler touches nothing, so sending and calling are taken as one step)
CodeSnapshotUpdateHandler(m) ==
  IF rpcs' # rpcs
  THEN MergeCall(m, ContentTab, [codeSnapshot |-> rpcs'[Len(rpcs')].snapshot])
  ELSE UNCHANGED <<merge, closed, lastPatch, storage>>

\* the handler has sent its response: the bus can take the next request
MergeReturn(m) ==
  /\ merge[m].pc \in {"done", "failed"}
  /\ merge' = [merge EXCEPT ![m] = NoMerge]
  /\ UNCHANGED <<closed, lastPatch, storage>>

\* the capture pipeline of one tab on a page that does not change, manual
\* entries, and the one-shot bus storing what the publisher sends
PublishNext ==
  \/ BridgeScan /\ UNCHANGED <<streamVars, tabVars, uiVars, busVars, promptVars, rpcVars>>
  \/ BridgeDeliver /\ CodeSnapshotUpdateHandler("m1") /\ UNCHANGED <<streamRest, uiVars, busVars, promptVars, rpcVars>>
  \/ ContentScan /\ CodeSnapshotUpdateHandler("m1") /\ UNCHANGED <<streamRest, uiVars, busVars, promptVars, rpcVars>>
  \/ \E code \in {<<>>, <<" ">>, <<"x">>} :
       ManualEntry(code) /\ CodeSnapshotUpdateHandler("m1") /\ UNCHANGED <<streamRest, uiVars, busVars, promptVars, rpcVars>>
  \/ MergeRead("m1") /\ UNCHANGED <<streamRest, contentVars, uiVars, busVars, promptVars, rpcVars>>
  \/ MergeWrite("m1") /\ UNCHANGED <<streamRest, contentVars, uiVars, busVars, promptVars, rpcVars>>
  \/ MergeReturn("m1") /\ UNCHANGED <<streamRest, contentVars, uiVars, busVars, promptVars, rpcVars>>

\* a page of Pages whose textarea is long enough to be captured; its editor, if
\* it has one, holds any of the texts, the whitespace-only one included
PublishInit ==
  /\ StreamInit /\ TabInit
  /\ \E pg \in {q \in Pages : q.textarea = LongText}, code \in Codes :
       ContentInit(Null, IF pg.kind = "none" THEN pg ELSE [pg EXCEPT !.code = code])

SpecPublish == PublishInit /\ [][PublishNext]_vars

\* the in-page UI on its port, with a background that may post any stream event
\* for any request id, stale ones included
PortHistory == <<UserItem(<<"q">>), AssistantItem(<<"a">>)>>

PortEvents ==
  UNION {{[type |-> "STREAM_START", requestId |-> RequestIds[i], port |-> "p1"],
          [type |-> "STREAM_CHUNK", requestId |-> RequestIds[i], port |-> "p1",
           chunk |-> <<"a">>],
          [type |-> "STREAM_DONE", requestId |-> RequestIds[i], port |-> "p1",
           history |-> PortHistory, response |-> <<"a">>],
          [type |-> "STREAM_ERROR", requestId |-> RequestIds[i], port |-> "p1",
           error |-> "Request canceled."]} : i \in 1..Len(RequestIds)}

\* length of the text the last history item holds
LastContentLen ==
  IF ui.history = <<>> THEN 0 ELSE Len(ui.history[Len(ui.history)].content)

\* the background posts an event on the port
PortPost(message) ==
  /\ Len(toUi) < MaxPortMsgs
  /\ message.type = "STREAM_CHUNK" => LastContentLen < MaxStream
  /\ toUi' = Append(toUi, message)
  /\ UNCHANGED <<ui, toBg, lastReceived>>

\* the background takes the oldest message the UI posted
PortTake ==
  /\ toBg # <<>>
  /\ toBg' = Tail(toBg)
  /\ UNCHANGED <<ui, toUi, lastReceived>>

PortNext ==
  \/ \E text \in Texts : sendMessage(text) /\ UNCHANGED <<streamVars, tabVars, contentVars, busVars, promptVars, rpcVars>>
  \/ cancelMessage /\ UNCHANGED <<streamVars, tabVars, contentVars, busVars, promptVars, rpcVars>>
  \/ \E message \in PortEvents :
       PortPost(message) /\ UNCHANGED <<streamVars, tabVars, contentVars, busVars, promptVars, rpcVars>>
  \/ Receive /\ UNCHANGED <<streamVars, tabVars, contentVars, busVars, promptVars, rpcVars>>
  \/ PortTake /\ UNCHANGED <<streamVars, tabVars, contentVars, busVars, promptVars, rpcVars>>

SpecPort == Init /\ [][PortNext]_vars

\* ------------------------------------------------- the legacy side panel
\* the panel keeps the same fields as the in-page UI; its placeholder is tagged
\* with the request it streams for
PanelPlaceholder(requestId) ==
  [role |-> "assistant", content |-> <<>>, streaming |-> TRUE, requestId |-> requestId]

\* sendUserMessage of the panel (a tab is attached)
sendUserMessage(rawText) ==
  /\ ui.created < Len(RequestIds)
  /\ Len(toBg) < MaxPortMsgs
  /\ IF Trim(rawText) = <<>> \/ ui.sending
     THEN UNCHANGED <<ui, toBg>>
     ELSE /\ ui' = [ui EXCEPT !.sending = TRUE,
                              !.requestId = createRequestId,
                              !.history = @ \o <<UserItem(Trim(rawText)),
                                                 PanelPlaceholder(createRequestId)>>,
                              !.created = @ + 1]
          /\ toBg' = Append(toBg, [type |-> "SEND_CHAT_STREAM", tabId |-> ContentTab,
                                   requestId |-> createRequestId, text |-> Trim(rawText)])
  /\ UNCHANGED <<toUi, lastReceived>>

\* last?.streaming && last.requestId === state.requestId
StreamingForTracked(history, requestId) ==
  /\ history # <<>>
  /\ "streaming" \in DOMAIN history[Len(history)]
  /\ history[Len(history)].streaming
  /\ history[Len(history)].requestId = requestId

\* appendStreamChunk of the panel
panelAppendStreamChunk(history, requestId, chunk) ==
  IF chunk # <<>> /\ StreamingForTracked(history, requestId)
  THEN [history EXCEPT ![Len(history)].content = @ \o chunk]
  ELSE history

\* finalizeStreaming of the panel, on the state u
finalizeStreaming(u, isError) ==
  [u EXCEPT !.sending = FALSE,
            !.history = IF isError /\ StreamingForTracked(@, u.requestId)
                        THEN SubSeq(@, 1, Len(@) - 1)
                        ELSE @,
            !.requestId = NoRequestId]

\* the port.onMessage listener of the panel
PanelListener(message) ==
  IF message.requestId # ui.requestId THEN ui
  ELSE CASE message.type = "STREAM_START" ->
              [ui EXCEPT !.statusText = "Streaming response..."]
         [] message.type = "STREAM_CHUNK" ->
              [ui EXCEPT !.history = panelAppendStreamChunk(@, ui.requestId, message.chunk)]
         [] message.type = "STREAM_DONE" ->
              [finalizeStreaming([ui EXCEPT !.history = message.history], FALSE)
                 EXCEPT !.statusText = "Assistant responded."]
         [] message.type = "STREAM_ERROR" ->
              [finalizeStreaming(ui, TRUE) EXCEPT !.statusText = "Request failed."]

PanelReceive ==
  /\ toUi # <<>>
  /\ ui' = PanelListener(Head(toUi))
  /\ toUi' = Tail(toUi)
  /\ lastReceived' = Head(toUi)
  /\ UNCHANGED toBg

\* the panel on its port, with a background that may post any stream event
PanelNext ==
  \/ \E text \in Texts : sendUserMessage(text) /\ UNCHANGED <<streamVars, tabVars, contentVars, busVars, promptVars, rpcVars>>
  \/ \E message \in PortEvents :
       PortPost(message) /\ UNCHANGED <<streamVars, tabVars, contentVars, busVars, promptVars, rpcVars>>
  \/ PanelReceive /\ UNCHANGED <<streamVars, tabVars, contentVars, busVars, promptVars, rpcVars>>
  \/ PortTake /\ UNCHANGED <<streamVars, tabVars, contentVars, busVars, promptVars, rpcVars>>

SpecPanel == Init /\ [][PanelNext]_vars

\* the one-shot bus serving one request after another from a tab's content
\* script (tab 1) or from a sender without a tab
BusNext ==
  \/ \E message \in BusMessages, sender \in {NoTab, 1} :
       BusRequest(message, sender) /\ UNCHANGED <<streamRest, contentVars, uiVars, promptVars, rpcVars>>
  \/ BusAwaitRejects /\ UNCHANGED <<streamRest, contentVars, uiVars, promptVars, rpcVars>>
  \/ BusAwaitResolves /\ UNCHANGED <<streamRest, contentVars, uiVars, promptVars, rpcVars>>
  \/ MergeRead("m1") /\ UNCHANGED <<streamRest, contentVars, uiVars, busVars, promptVars, rpcVars>>
  \/ MergeWrite("m1") /\ UNCHANGED <<streamRest, contentVars, uiVars, busVars, promptVars, rpcVars>>
  \/ BusMergeSettles /\ UNCHANGED <<streamRest, contentVars, uiVars, promptVars, rpcVars>>
  \/ BusRespond /\ UNCHANGED <<streamRest, contentVars, uiVars, promptVars, rpcVars>>

SpecBus == Init /\ [][BusNext]_vars

\* the context and the code snapshot a request may carry
RequestContexts == {"null", "c9"}
RequestSnapshots == {"null", "s9"}

\* one start call whose request carries a context, a code snapshot, both or
\* neither, while the tab's content script updates the persisted tab state
ResolveNext ==
  \/ \E t \in Tabs, context \in RequestContexts, codeSnapshot \in RequestSnapshots :
       StartCallWith(1, t, "r1", "p1", <<"q">>, context, codeSnapshot)
       /\ UNCHANGED <<tabVars, contentVars, uiVars, busVars, promptVars, rpcVars>>
  \/ GetSettings(1) /\ UNCHANGED <<tabVars, contentVars, uiVars, busVars, promptVars, rpcVars>>
  \/ GetTabState(1) /\ UNCHANGED <<tabVars, contentVars, uiVars, busVars, promptVars, rpcVars>>
  \/ GetHistory(1) /\ UNCHANGED <<tabVars, contentVars, uiVars, busVars, promptVars, rpcVars>>
  \/ StreamText(1) /\ UNCHANGED <<tabVars, contentVars, uiVars, busVars, promptVars, rpcVars>>
  \/ \E d \in Deltas : ReadDelta(1, d) /\ UNCHANGED <<tabVars, contentVars, uiVars, busVars, promptVars, rpcVars>>
  \/ ReadThrow(1) /\ UNCHANGED <<tabVars, contentVars, uiVars, busVars, promptVars, rpcVars>>
  \/ ReadEnd(1) /\ UNCHANGED <<tabVars, contentVars, uiVars, busVars, promptVars, rpcVars>>
  \/ IncrementTokenCounter(1) /\ UNCHANGED <<tabVars, contentVars, uiVars, busVars, promptVars, rpcVars>>
  \/ SetHistory(1) /\ UNCHANGED <<tabVars, contentVars, uiVars, busVars, promptVars, rpcVars>>
  \/ EmitDone(1) /\ UNCHANGED <<tabVars, contentVars, uiVars, busVars, promptVars, rpcVars>>
  \/ \E t \in Tabs, patch \in Patches :
       MergeCall("m1", t, patch) /\ UNCHANGED <<streamRest, contentVars, uiVars, busVars, promptVars, rpcVars>>
  \/ MergeRead("m1") /\ UNCHANGED <<streamRest, contentVars, uiVars, busVars, promptVars, rpcVars>>
  \/ MergeWrite("m1") /\ UNCHANGED <<streamRest, contentVars, uiVars, busVars, promptVars, rpcVars>>
  \/ MergeReturn("m1") /\ UNCHANGED <<streamRest, contentVars, uiVars, busVars, promptVars, rpcVars>>

SpecResolve == Init /\ [][ResolveNext]_vars

\* the events the calls emit in a step, in emission order: emit posts them on
\* the port of the UI
NewEvents(c) == SubSeq(events'[c], Len(events[c]) + 1, Len(events'[c]))

Emit ==
  /\ toUi' = toUi \o NewEvents(1) \o NewEvents(2)
  /\ UNCHANGED <<ui, toBg, lastReceived>>

\* the background's port listener takes the oldest message of the UI: start or cancel
PortListener ==
  /\ toBg # <<>>
  /\ toBg' = Tail(toBg)
  /\ LET message == Head(toBg)
     IN IF message.type = "SEND_CHAT_STREAM"
        THEN StartCall(started + 1, message.tabId, message.requestId, "p1", message.text)
        ELSE Cancel(message.tabId, message.requestId)
  /\ UNCHANGED <<ui, toUi, lastReceived>>

\* the in-page UI of one tab and the background behind its port
UiNext ==
  \/ \E text \in Texts : sendMessage(text) /\ UNCHANGED <<streamVars, tabVars, contentVars, busVars, promptVars, rpcVars>>
  \/ cancelMessage /\ UNCHANGED <<streamVars, tabVars, contentVars, busVars, promptVars, rpcVars>>
  \/ PortListener /\ UNCHANGED <<tabVars, contentVars, busVars, promptVars, rpcVars>>
  \/ \E c \in Calls : GetSettings(c) /\ Emit /\ UNCHANGED <<tabVars, contentVars, busVars, promptVars, rpcVars>>
  \/ \E c \in Calls : GetTabState(c) /\ Emit /\ UNCHANGED <<tabVars, contentVars, busVars, promptVars, rpcVars>>
  \/ \E c \in Calls : GetHistory(c) /\ Emit /\ UNCHANGED <<tabVars, contentVars, busVars, promptVars, rpcVars>>
  \/ \E c \in Calls : StreamText(c) /\ Emit /\ UNCHANGED <<tabVars, contentVars, busVars, promptVars, rpcVars>>
  \/ \E c \in Calls : ReadThrow(c) /\ Emit /\ UNCHANGED <<tabVars, contentVars, busVars, promptVars, rpcVars>>
  \/ \E c \in Calls : ReadEnd(c) /\ Emit /\ UNCHANGED <<tabVars, contentVars, busVars, promptVars, rpcVars>>
  \/ \E c \in Calls : IncrementTokenCounter(c) /\ Emit /\ UNCHANGED <<tabVars, contentVars, busVars, promptVars, rpcVars>>
  \/ \E c \in Calls : SetHistory(c) /\ Emit /\ UNCHANGED <<tabVars, contentVars, busVars, promptVars, rpcVars>>
  \/ \E c \in Calls : EmitDone(c) /\ Emit /\ UNCHANGED <<tabVars, contentVars, busVars, promptVars, rpcVars>>
  \/ \E c \in Calls, d \in Deltas : ReadDelta(c, d) /\ Emit /\ UNCHANGED <<tabVars, contentVars, busVars, promptVars, rpcVars>>
  \/ Receive /\ UNCHANGED <<streamVars, tabVars, contentVars, busVars, promptVars, rpcVars>>

SpecUi == Init /\ [][UiNext]_vars

\* what start call c does when the store operation or the completion call it
\* awaits settles, with the events it emits posted on the port
StartSettles(c) ==
  /\ \/ GetSettings(c) \/ GetTabState(c) \/ GetHistory(c) \/ StreamText(c)
     \/ \E d \in Deltas : ReadDelta(c, d)
     \/ ReadThrow(c) \/ ReadEnd(c) \/ IncrementTokenCounter(c) \/ SetHistory(c)
     \/ EmitDone(c)
  /\ Emit
  /\ UNCHANGED <<tabVars, contentVars, busVars, promptVars, rpcVars>>

\* the in-page UI and the background when every awaited operation settles and
\* the port delivers in both directions
SpecUiFair ==
  /\ SpecUi
  /\ \A c \in Calls : WF_vars(StartSettles(c))
  /\ WF_vars(PortListener /\ UNCHANGED <<tabVars, contentVars, busVars, promptVars, rpcVars>>)
  /\ WF_vars(Receive /\ UNCHANGED <<streamVars, tabVars, contentVars, busVars, promptVars, rpcVars>>)

\* the two endpoints of the streaming channel connected to the background
Endpoints == {"p1", "p2"}

\* sessions of tab 1 started from either endpoint, and cancels arriving on either
EndpointNext ==
  \/ \E c \in Calls, p \in Endpoints :
       StartCall(c, 1, RequestIds[c], p, <<"q">>) /\ UNCHANGED <<tabVars, contentVars, uiVars, busVars, promptVars, rpcVars>>
  \/ \E c \in Calls : GetSettings(c) /\ UNCHANGED <<tabVars, contentVars, uiVars, busVars, promptVars, rpcVars>>
  \/ \E c \in Calls : GetTabState(c) /\ UNCHANGED <<tabVars, contentVars, uiVars, busVars, promptVars, rpcVars>>
  \/ \E c \in Calls : GetHistory(c) /\ UNCHANGED <<tabVars, contentVars, uiVars, busVars, promptVars, rpcVars>>
  \/ \E c \in Calls : StreamText(c) /\ UNCHANGED <<tabVars, contentVars, uiVars, busVars, promptVars, rpcVars>>
  \/ \E c \in Calls, d \in Deltas : ReadDelta(c, d) /\ UNCHANGED <<tabVars, contentVars, uiVars, busVars, promptVars, rpcVars>>
  \/ \E c \in Calls : ReadThrow(c) /\ UNCHANGED <<tabVars, contentVars, uiVars, busVars, promptVars, rpcVars>>
  \/ \E c \in Calls : ReadEnd(c) /\ UNCHANGED <<tabVars, contentVars, uiVars, busVars, promptVars, rpcVars>>
  \/ \E c \in Calls : IncrementTokenCounter(c) /\ UNCHANGED <<tabVars, contentVars, uiVars, busVars, promptVars, rpcVars>>
  \/ \E c \in Calls : SetHistory(c) /\ UNCHANGED <<tabVars, contentVars, uiVars, busVars, promptVars, rpcVars>>
  \/ \E c \in Calls : EmitDone(c) /\ UNCHANGED <<tabVars, contentVars, uiVars, busVars, promptVars, rpcVars>>
  \/ \E p \in Endpoints, r \in ReqIds :
       CancelOn(p, 1, r) /\ UNCHANGED <<tabVars, contentVars, uiVars, busVars, promptVars, rpcVars>>

SpecEndpoints == Init /\ [][EndpointNext]_vars

\* a session of tab 1 and a second session of either tab with the same or
\* another request id, and cancels for every pair
IsolationNext ==
  \/ \E c \in Calls, t \in Tabs, r \in ReqIds :
       (c = 1 => (t = 1 /\ r = "r1")) /\ StartCall(c, t, r, "p1", <<"q">>) /\ UNCHANGED <<tabVars, contentVars, uiVars, busVars, promptVars, rpcVars>>
  \/ \E c \in Calls : GetSettings(c) /\ UNCHANGED <<tabVars, contentVars, uiVars, busVars, promptVars, rpcVars>>
  \/ \E c \in Calls : GetTabState(c) /\ UNCHANGED <<tabVars, contentVars, uiVars, busVars, promptVars, rpcVars>>
  \/ \E c \in Calls : GetHistory(c) /\ UNCHANGED <<tabVars, contentVars, uiVars, busVars, promptVars, rpcVars>>
  \/ \E c \in Calls : StreamText(c) /\ UNCHANGED <<tabVars, contentVars, uiVars, busVars, promptVars, rpcVars>>
  \/ \E c \in Calls, d \in Deltas : ReadDelta(c, d) /\ UNCHANGED <<tabVars, contentVars, uiVars, busVars, promptVars, rpcVars>>
  \/ \E c \in Calls : ReadThrow(c) /\ UNCHANGED <<tabVars, contentVars, uiVars, busVars, promptVars, rpcVars>>
  \/ \E c \in Calls : ReadEnd(c) /\ UNCHANGED <<tabVars, contentVars, uiVars, busVars, promptVars, rpcVars>>
  \/ \E c \in Calls : IncrementTokenCounter(c) /\ UNCHANGED <<tabVars, contentVars, uiVars, busVars, promptVars, rpcVars>>
  \/ \E c \in Calls : SetHistory(c) /\ UNCHANGED <<tabVars, contentVars, uiVars, busVars, promptVars, rpcVars>>
  \/ \E c \in Calls : EmitDone(c) /\ UNCHANGED <<tabVars, contentVars, uiVars, busVars, promptVars, rpcVars>>
  \/ \E t \in Tabs, r \in ReqIds :
       Cancel(t, r) /\ UNCHANGED <<tabVars, contentVars, uiVars, busVars, promptVars, rpcVars>>

SpecIsolation == Init /\ [][IsolationNext]_vars

\* the tab's content script clears the chat of tab 1 while a start call for the
\* tab runs
ClearMessage == [type |-> "CLEAR_CHAT_HISTORY", tabId |-> 1]

ClearNext ==
  \/ \E x \in Texts :
       StartCall(1, 1, "r1", "p1", x) /\ UNCHANGED <<tabVars, contentVars, uiVars, busVars, promptVars, rpcVars>>
  \/ GetSettings(1) /\ UNCHANGED <<tabVars, contentVars, uiVars, busVars, promptVars, rpcVars>>
  \/ GetTabState(1) /\ UNCHANGED <<tabVars, contentVars, uiVars, busVars, promptVars, rpcVars>>
  \/ GetHistory(1) /\ UNCHANGED <<tabVars, contentVars, uiVars, busVars, promptVars, rpcVars>>
  \/ StreamText(1) /\ UNCHANGED <<tabVars, contentVars, uiVars, busVars, promptVars, rpcVars>>
  \/ \E d \in Deltas : ReadDelta(1, d) /\ UNCHANGED <<tabVars, contentVars, uiVars, busVars, promptVars, rpcVars>>
  \/ ReadThrow(1) /\ UNCHANGED <<tabVars, contentVars, uiVars, busVars, promptVars, rpcVars>>
  \/ ReadEnd(1) /\ UNCHANGED <<tabVars, contentVars, uiVars, busVars, promptVars, rpcVars>>
  \/ IncrementTokenCounter(1) /\ UNCHANGED <<tabVars, contentVars, uiVars, busVars, promptVars, rpcVars>>
  \/ SetHistory(1) /\ UNCHANGED <<tabVars, contentVars, uiVars, busVars, promptVars, rpcVars>>
  \/ EmitDone(1) /\ UNCHANGED <<tabVars, contentVars, uiVars, busVars, promptVars, rpcVars>>
  \/ BusRequest(ClearMessage, 1) /\ UNCHANGED <<streamRest, contentVars, uiVars, promptVars, rpcVars>>
  \/ BusAwaitRejects /\ UNCHANGED <<streamRest, contentVars, uiVars, promptVars, rpcVars>>
  \/ BusAwaitResolves /\ UNCHANGED <<streamRest, contentVars, uiVars, promptVars, rpcVars>>
  \/ BusRespond /\ UNCHANGED <<streamRest, contentVars, uiVars, promptVars, rpcVars>>

SpecClear == Init /\ [][ClearNext]_vars

\* buildSystemPrompt on every combination of context, code snapshot, styles,
\* persona and custom fragment
PromptNext ==
  \E context \in PromptContexts, code \in PromptCodes, personaMode \in PersonaModes,
     settings \in [coachingStyle : CoachingStyles, responseStyle : ResponseStyles,
                   systemPromptOverride : Overrides] :
    BuildSystemPrompt(context, code, settings, personaMode)
    /\ UNCHANGED <<streamVars, tabVars, contentVars, uiVars, busVars, rpcVars>>

SpecPrompt == Init /\ [][PromptNext]_vars

\* ------------------------------------------------------- observations
Finished(c) == pc[c] \in {"returned", "rejected"}

IsTerminal(e) == e.type \in {"STREAM_DONE", "STREAM_ERROR"}

TerminalCount(c) == Cardinality({i \in 1..Len(events[c]) : IsTerminal(events[c][i])})

HasEvent(c, type) == \E i \in 1..Len(events[c]) : events[c][i].type = type

LastEvent(c) == events[c][Len(events[c])]

EndsWith(c, type) == Len(events[c]) > 0 /\ LastEvent(c).type = type

Registered(c) == pc[c] # "idle" /\ sessions[KeyOf(c)] = c

\* the deltas of the STREAM_CHUNK events of call c, concatenated in emission order
RECURSIVE ChunksOf(_)
ChunksOf(es) ==
  IF es = <<>> THEN <<>>
  ELSE (IF Head(es).type = "STREAM_CHUNK" THEN Head(es).chunk ELSE <<>>) \o ChunksOf(Tail(es))

\* --------------------------------------------------------------- claims

\* C1: the events of one start call are STREAM_START, then STREAM_CHUNKs, then one
\* terminal event: no chunk comes before STREAM_START, no call emits more than one
\* terminal event or anything after it, and a call that has finished has emitted
\* exactly one terminal event.
C1_EventOrder ==
  \A c \in Calls :
    /\ \A i \in 1..Len(events[c]) :
         /\ events[c][i].type = "STREAM_CHUNK" =>
              \E j \in 1..(i - 1) : events[c][j].type = "STREAM_START"
         /\ IsTerminal(events[c][i]) => i = Len(events[c])
    /\ TerminalCount(c) <= 1
    /\ Finished(c) => TerminalCount(c) = 1

\* C2: a call whose terminal event is STREAM_ERROR has written nothing to the
\* history key, a call writes it at most once, and a call that has written it
\* is about to emit STREAM_DONE or has ended with STREAM_DONE.
C2_HistoryOnlyOnSuccess ==
  \A c \in Calls :
    /\ HasEvent(c, "STREAM_ERROR") => histWrites[c] = 0
    /\ histWrites[c] <= 1
    /\ histWrites[c] > 0 => (pc[c] = "emitDone" \/ EndsWith(c, "STREAM_DONE"))
    /\ (histWrites[c] > 0 /\ Finished(c)) => EndsWith(c, "STREAM_DONE")

\* two calls have ended, one with STREAM_DONE after its single history write, the
\* other with STREAM_ERROR after a chunk and with no history write
C2_Witness ==
  \E c, d \in Calls :
    /\ EndsWith(c, "STREAM_DONE") /\ histWrites[c] = 1
    /\ EndsWith(d, "STREAM_ERROR") /\ HasEvent(d, "STREAM_CHUNK") /\ histWrites[d] = 0

\* C3: a call whose abort signal was raised by cancel while it was registered never
\* emits STREAM_DONE and never writes the tab's history.
C3_CancelWhileLiveNeverDone ==
  \A c \in Calls : aborted[c] => (~HasEvent(c, "STREAM_DONE") /\ histWrites[c] = 0)

\* C4 as stated: the history of STREAM_DONE has length min(previousLength + 2, 30),
\* previousLength being the length of the persisted history when start was called,
\* and ends with the new user turn and the new assistant turn.
C4_DoneHistoryFromStart ==
  \A c \in Calls :
    EndsWith(c, "STREAM_DONE") =>
      LET h == LastEvent(c).history IN
      /\ Len(h) = Min(prevLen[c] + 2, MAX_HISTORY_MESSAGES)
      /\ h[Len(h) - 1] = [role |-> "user", content |-> request[c].text]
      /\ h[Len(h)] = [role |-> "assistant", content |-> LastEvent(c).response]

\* C4 as amended: the history of STREAM_DONE has length min(loadedLength + 2, 30),
\* loadedLength being the length of the history the call loaded with getHistory,
\* and ends with the user turn holding the request text and the assistant turn
\* holding the trimmed concatenation of the chunks.
C4_DoneHistoryFromLoaded ==
  \A c \in Calls :
    EndsWith(c, "STREAM_DONE") =>
      LET h == LastEvent(c).history IN
      /\ Len(h) = Min(loadedLen[c] + 2, MAX_HISTORY_MESSAGES)
      /\ h[Len(h) - 1] = [role |-> "user", content |-> request[c].text]
      /\ h[Len(h)] = [role |-> "assistant", content |-> Trim(ChunksOf(events[c]))]
      /\ LastEvent(c).response = Trim(ChunksOf(events[c]))

\* a call has ended with STREAM_DONE after loading a history already at the cap
C4_Witness ==
  \E c \in Calls :
    /\ EndsWith(c, "STREAM_DONE")
    /\ loadedLen[c] = MAX_HISTORY_MESSAGES
    /\ HasEvent(c, "STREAM_CHUNK")

\* C5: a start call that has finished has no registry entry, and the registry is
\* empty whenever no start call is in flight.
C5_NoOrphanedSessions ==
  /\ \A c \in Calls : Finished(c) => ~Registered(c)
  /\ (\A c \in Calls : pc[c] = "idle" \/ Finished(c)) =>
       \A k \in Keys : sessions[k] = NoCall

\* C6: a start call that has ended without STREAM_DONE (a step of it failed, the
\* credential was missing or it was canceled) has ended with STREAM_ERROR and
\* has been removed from the registry.
C6_FailuresBecomeStreamError ==
  \A c \in Calls :
    (Finished(c) /\ ~HasEvent(c, "STREAM_DONE")) =>
      (EndsWith(c, "STREAM_ERROR") /\ ~Registered(c))

\* C7: a request whose text is empty after trimming never gets STREAM_START and
\* never reaches the completion call.
C7_EmptyTextRejected ==
  \A c \in Calls :
    (pc[c] # "idle" /\ Trim(request[c].text) = <<>>) =>
      (~HasEvent(c, "STREAM_START") /\ pc[c] \notin {"streamText", "textStream"})

\* C8: with no apiKey configured the registry never holds an entry, no
\* STREAM_START is emitted and no history is written.
C8_MissingCredentialCreatesNoSession ==
  storage.settings.apiKey = "" =>
    /\ \A k \in Keys : sessions[k] = NoCall
    /\ \A c \in Calls : ~HasEvent(c, "STREAM_START") /\ histWrites[c] = 0

\* C9: a cancel for a pair whose session is already aborted, or that has no
\* session (never started, or terminated), changes nothing at all: no event, no
\* registry or store change, so what follows is what follows a single cancel.
C9_CancelIdempotent ==
  [][\A t \in Tabs, r \in ReqIds :
       (Cancel(t, r) /\ (sessions[sessionKey(t, r)] = NoCall
                          \/ aborted[sessions[sessionKey(t, r)]]))
         => UNCHANGED vars]_vars

\* a canceled call has ended with its one terminal event, the cancellation error,
\* and its pair is no longer registered
C9_Witness ==
  \E c \in Calls :
    /\ pc[c] = "returned" /\ aborted[c]
    /\ TerminalCount(c) = 1
    /\ LastEvent(c).type = "STREAM_ERROR" /\ LastEvent(c).error = "Request canceled."
    /\ sessions[KeyOf(c)] = NoCall

\* C10: cancel emits nothing and changes neither the registry nor the store nor
\* any start call's position; all it may change is the abort signal of the
\* session registered for its pair, which it raises.
C10_CancelFrame ==
  [][\A t \in Tabs, r \in ReqIds :
       Cancel(t, r) =>
         /\ UNCHANGED <<sessions, storage, events, pc, request, local, histWrites>>
         /\ \A c \in Calls :
              aborted'[c] # aborted[c] =>
                (c = sessions[sessionKey(t, r)] /\ aborted'[c])]_vars

\* a call in flight is still registered after cancel raised its abort signal
C10_Witness ==
  \E c \in Calls : aborted[c] /\ Registered(c) /\ ~Finished(c) /\ events[c] # <<>>

\* C11: the terminal event of a start call (STREAM_DONE or STREAM_ERROR) is the
\* last event it emits: nothing is emitted with it or after it, whatever happens
\* afterwards (a late cancel, the cleanup of the call, another call for the pair).
C11_NothingAfterTerminal ==
  /\ [](\A c \in Calls : \A i \in 1..Len(events[c]) :
          IsTerminal(events[c][i]) => i = Len(events[c]))
  /\ [][\A c \in Calls : TerminalCount(c) > 0 => events'[c] = events[c]]_vars

\* a canceled call has ended with its one terminal event as its last event, and
\* a later call for the same (tab, request) pair has emitted events of its own
C11_Witness ==
  /\ pc[1] = "returned" /\ aborted[1]
  /\ TerminalCount(1) = 1 /\ IsTerminal(LastEvent(1))
  /\ pc[2] # "idle" /\ KeyOf(2) = KeyOf(1) /\ events[2] # <<>>

\* C12: a call that has reached the completion call has STREAM_START as its first
\* event, and a call that passed the credential check never ends (by success,
\* failure or cancellation) without having emitted STREAM_START.
C12_StartOnEveryAccepted ==
  /\ [](\A c \in Calls :
          pc[c] \in {"streamText", "textStream", "incrementTokenCounter",
                     "setHistory", "emitDone"} =>
            (events[c] # <<>> /\ events[c][1].type = "STREAM_START"))
  /\ [][\A c \in Calls :
          (pc[c] \in {"getTabState", "getHistory"} /\ pc'[c] \in {"returned", "rejected"})
            => \E i \in 1..Len(events'[c]) : events'[c][i].type = "STREAM_START"]_vars

\* C13 as stated: while the stream is read the chunks emitted so far, concatenated,
\* are the response accumulated so far, and the response of STREAM_DONE and the
\* assistant item stored are exactly the concatenation of the chunks.
C13_ChunksEqualResponse ==
  \A c \in Calls :
    /\ pc[c] \in {"textStream", "incrementTokenCounter", "setHistory", "emitDone"} =>
         ChunksOf(events[c]) = local[c].response
    /\ EndsWith(c, "STREAM_DONE") =>
         /\ LastEvent(c).response = ChunksOf(events[c])
         /\ LastEvent(c).history[Len(LastEvent(c).history)].content = ChunksOf(events[c])

\* C13 as amended: while the stream is read the chunks emitted so far, concatenated,
\* are the response accumulated so far (each chunk is one new delta, nothing is
\* sent twice), and the response of STREAM_DONE, the assistant item of its history
\* and the assistant item stored for the tab are the concatenation of the chunks
\* with leading and trailing whitespace removed.
C13_ChunksTrimmedEqualResponse ==
  \A c \in Calls :
    /\ pc[c] \in {"textStream", "incrementTokenCounter", "setHistory", "emitDone"} =>
         ChunksOf(events[c]) = local[c].response
    /\ EndsWith(c, "STREAM_DONE") =>
         /\ LastEvent(c).response = Trim(ChunksOf(events[c]))
         /\ LastEvent(c).history[Len(LastEvent(c).history)].content = Trim(ChunksOf(events[c]))
         /\ getHistory(request[c].tabId) = LastEvent(c).history

\* a call has ended with STREAM_DONE after three chunks, the first of them
\* whitespace that the response carried by STREAM_DONE has lost
C13_Witness ==
  \E c \in Calls :
    /\ EndsWith(c, "STREAM_DONE")
    /\ Len(ChunksOf(events[c])) = MaxStream
    /\ IsSpace(ChunksOf(events[c])[1])
    /\ Len(LastEvent(c).response) = MaxStream - 1

\* C14: a merge whose write follows its read with no other write to the tab's state
\* in between stores the patch's field with the patch's value, leaves the other
\* field of the tab's state as it was, and leaves every other tab's state, every
\* history and the settings unchanged.
C14_MergeFrame ==
  [][\A m \in Merges :
       (MergeWrite(m) /\ merge'[m].pc = "done"
          /\ merge[m].read = getTabState(merge[m].tabId)) =>
         LET t == merge[m].tabId
             before == getTabState(t)
             after == storage'.tabState[t]
         IN /\ after.present
            /\ \A f \in {"context", "codeSnapshot"} :
                 after.value[f] = IF f \in DOMAIN merge[m].patch
                                  THEN merge[m].patch[f] ELSE before[f]
            /\ \A u \in Tabs \ {t} : storage'.tabState[u] = storage.tabState[u]
            /\ storage'.history = storage.history
            /\ storage'.settings = storage.settings]_vars

\* a CONTEXT_UPDATE of tab 1 has completed on its own: the context is the new one,
\* the code snapshot persisted before is still there, tab 2 still has no state
C14_Witness ==
  \E m \in Merges :
    /\ merge[m] = [pc |-> "done", tabId |-> 1, patch |-> [context |-> "c1"],
                   read |-> [context |-> "c0", codeSnapshot |-> "s0"]]
    /\ \A n \in Merges \ {m} : merge[n].pc = "idle"
    /\ storage.tabState[1] = Stored([context |-> "c1", codeSnapshot |-> "s0"])
    /\ storage.tabState[2] = Absent

\* C15: when no merge of a tab is in flight any more, each field of the tab's
\* stored state holds the value of the last merge write that patched that field
\* (no merge has reverted a field that was absent from its patch).
C15_FieldLevelLastWriteWins ==
  \A t \in Tabs \ closed :
    (\A m \in Merges : merge[m].tabId = t => merge[m].pc \in {"done", "failed"}) =>
      \A f \in {"context", "codeSnapshot"} :
        lastPatch[t][f] # "none" => getTabState(t)[f] = lastPatch[t][f]

\* C16: a tab that has closed has no history key and no tab-state key in the
\* store, whatever was in flight for it when it closed.
C16_ClosedTabHasNoKeys ==
  \A t \in closed : ~storage.history[t].present /\ ~storage.tabState[t].present

\* C17: a cancel for a tab that has closed changes nothing: no abort signal is
\* raised, no event is emitted, the registry and the store stay as they are.
C17_CancelAfterCloseIsNoOp ==
  [][\A t \in closed, r \in ReqIds : Cancel(t, r) => UNCHANGED vars]_vars

\* the signature the claims speak of: URL, title and the first 1500 characters
\* of the description, joined by "|"
SignatureOf(context) ==
  IF context.null THEN <<>>
  ELSE context.url \o <<"|">> \o context.title \o <<"|">>
       \o [i \in 1..Min(Len(context.description), 1500) |-> context.description[i]]

\* the scans before scan i that sent CONTEXT_UPDATE
SentBefore(i) == {j \in 1..(i - 1) : scans[j].sent}

\* the contexts of the scans that sent CONTEXT_UPDATE, in order
RECURSIVE SentContexts(_)
SentContexts(log) ==
  IF log = <<>> THEN <<>>
  ELSE (IF Head(log).sent THEN <<ContextUpdate(Head(log).context)>> ELSE <<>>)
       \o SentContexts(Tail(log))

\* C18: a scan sends CONTEXT_UPDATE exactly when it extracted a context and it was
\* forced or the context's signature differs from the last propagated one (the
\* signature of the last context sent, or of the context loaded at bootstrap);
\* an unforced scan that follows an unforced scan of a context with the same URL,
\* title and first 1500 characters of description sends nothing; the requests
\* sent are those of the sending scans, in order.
C18_SignatureSuppression ==
  /\ \A i \in 1..Len(scans) :
       LET e == scans[i] IN
       /\ e.sent <=> (~e.context.null /\ (e.force \/ SignatureOf(e.context) # e.last))
       /\ e.last = IF SentBefore(i) = {} THEN scans[1].last
                   ELSE SignatureOf(scans[CHOOSE j \in SentBefore(i) :
                                            \A k \in SentBefore(i) : k <= j].context)
  /\ \A i \in 1..(Len(scans) - 1) :
       (/\ ~scans[i].force /\ ~scans[i + 1].force
        /\ ~scans[i].context.null
        /\ SignatureOf(scans[i].context) = SignatureOf(scans[i + 1].context))
         => ~scans[i + 1].sent
  /\ rpcs = SentContexts(scans)
  /\ lastContextSignature = IF SentBefore(Len(scans) + 1) = {}
                            THEN SignatureOf(state.context) ELSE SignatureOf(rpcs[Len(rpcs)].context)

\* an unforced scan sent a context with a long description, the next unforced scan
\* extracted a context differing only after the 1500th character and sent nothing,
\* and a forced scan of that same context then sent it
C18_Witness ==
  /\ Len(scans) = 3
  /\ ~scans[1].force /\ scans[1].sent /\ Len(scans[1].context.description) > SignaturePrefix
  /\ ~scans[2].force /\ ~scans[2].sent /\ scans[2].context # scans[1].context
  /\ ~scans[2].context.null
  /\ scans[3].force /\ scans[3].sent /\ scans[3].context = scans[2].context

\* the CODE_SNAPSHOT_UPDATE requests sent so far
CodeUpdates == {i \in 1..Len(rpcs) : rpcs[i].type = "CODE_SNAPSHOT_UPDATE"}

\* C19 as stated: every snapshot published differs from the snapshot held when it
\* was published both in its code and in its source tag.
C19_PublishedDiffersInBoth ==
  \A i \in CodeUpdates :
    /\ rpcs[i].snapshot.code # rpcs[i].held.code
    /\ rpcs[i].snapshot.source # rpcs[i].held.source

\* what publishCodeSnapshot must do with a snapshot under C19 as amended
PublishesIffNew(snapshot) ==
  IF /\ snapshot # NullSnapshot
     /\ Trim(snapshot.code) # <<>>
     /\ (snapshot.code # state.codeSnapshot.code \/ snapshot.source # state.codeSnapshot.source)
  THEN /\ state'.codeSnapshot = snapshot
       /\ Len(rpcs') = Len(rpcs) + 1
       /\ rpcs'[Len(rpcs')].type = "CODE_SNAPSHOT_UPDATE"
       /\ rpcs'[Len(rpcs')].snapshot = snapshot
  ELSE UNCHANGED <<state, rpcs>>

\* C19 as amended: a snapshot handed to publishCodeSnapshot, by the bridge listener
\* or by the periodic scan, is published (held snapshot replaced and
\* CODE_SNAPSHOT_UPDATE sent) exactly when it is non-blank and differs from the
\* held one in its code or in its source tag; so every snapshot published differs
\* from the one held before in at least one of the two, and the held snapshot is
\* the last one published.
C19_PublishedDiffersInEither ==
  /\ [](\A i \in CodeUpdates :
          \/ rpcs[i].snapshot.code # rpcs[i].held.code
          \/ rpcs[i].snapshot.source # rpcs[i].held.source)
  /\ [](state.codeSnapshot = IF CodeUpdates = {} THEN NullSnapshot
                             ELSE rpcs[Len(rpcs)].snapshot)
  /\ [][/\ BridgeDeliver => PublishesIffNew(Head(bridgeMsgs))
        /\ ContentScan => PublishesIffNew(domOrTextarea(page))]_vars

\* one snapshot was published with the source tag of the held one and another
\* code, and one with the code of the held one and another source tag
C19_Witness ==
  \E i, j \in CodeUpdates :
    /\ rpcs[i].snapshot.source = rpcs[i].held.source
    /\ rpcs[i].snapshot.code # rpcs[i].held.code
    /\ rpcs[j].snapshot.code = rpcs[j].held.code
    /\ rpcs[j].snapshot.source # rpcs[j].held.source

\* C20: a snapshot published while the page has an editor object reachable by the
\* page bridge, holding text, and a textarea with at least the minimum amount of
\* text carries the editor's source tag, never "textarea" (the held snapshot is
\* the last one published).
C20_EditorBeatsTextarea ==
  \A i \in CodeUpdates :
    (/\ rpcs[i].page.kind # "none" /\ rpcs[i].page.api
     /\ Trim(rpcs[i].page.code) # <<>>
     /\ Len(Trim(rpcs[i].page.textarea)) >= MinTextareaLength)
      => rpcs[i].snapshot.source = rpcs[i].page.kind

C22_HistoryCapped ==
  /\ \A t \in Tabs : Len(getHistory(t)) <= 30
  /\ \A c \in Calls :
       pc[c] \in {"setHistory", "emitDone"} =>
         LET full == local[c].history \o
                       << [role |-> "user", content |-> request[c].text],
                          [role |-> "assistant", content |-> Trim(local[c].response)] >>
             kept == local[c].nextHistory
         IN /\ Len(kept) = Min(Len(full), 30)
            /\ \A i \in 1..Len(kept) : kept[i] = full[Len(full) - Len(kept) + i]
  /\ \A c \in Calls :
       histWrites[c] > 0 /\ pc[c] = "emitDone" /\ (\A d \in Calls \ {c} : histWrites[d] = 0)
         => getHistory(request[c].tabId) = local[c].nextHistory

\* a call that loaded a history of 30 items has written 30 items: the two oldest
\* are gone, the third oldest is now the first, its own two items are the last
C22_Witness ==
  \E c \in Calls :
    /\ pc[c] = "emitDone" /\ loadedLen[c] = 30
    /\ Len(getHistory(request[c].tabId)) = 30
    /\ getHistory(request[c].tabId)[1] = OldHistory(30)[3]
    /\ getHistory(request[c].tabId)[29] = [role |-> "user", content |-> request[c].text]

\* C23: an event whose requestId is not the tracked one, or that arrives while
\* no request is tracked, leaves the UI's history, sending flag, tracked
\* requestId and status as they were.
C23_MismatchedEventDiscarded ==
  [][(/\ toUi # <<>>
      /\ toUi' = Tail(toUi)
      /\ lastReceived' = Head(toUi)
      /\ (ui.requestId = NoRequestId \/ Head(toUi).requestId # ui.requestId))
     => ui' = ui]_vars

\* the terminal event of the finalized first request was delivered while the
\* second request is tracked, and the second request is still in flight
C23_Witness ==
  /\ lastReceived.type = "STREAM_DONE"
  /\ lastReceived.requestId = RequestIds[1]
  /\ ui.requestId = RequestIds[2]
  /\ ui.sending
  /\ ui.statusText = "Sending..."
  /\ Len(ui.history) = 4
  /\ ui.history[4] = AssistantItem(<<>>)

\* what the handler does next while a request is neither fresh nor answered
BusProgress ==
  \/ BusAwaitRejects \/ BusAwaitResolves \/ BusMergeSettles \/ BusRespond
  \/ MergeRead("m1") /\ UNCHANGED bus
  \/ MergeWrite("m1") /\ UNCHANGED bus

NoTabRejections ==
  {"Context update without tab.", "Code snapshot update without tab.", "No tab to rescan."}

\* C24: a request on the one-shot bus is answered exactly once, with
\* {ok:true, ...payload} or {ok:false, error}; a throw in the handler (unknown
\* type, no tab, store failure) becomes {ok:false, error}; a request rejected
\* for lack of a tab leaves the store as it was.
C24_OneResponse ==
  /\ Len(bus.responses) <= 1
  /\ bus.pc = "responded" <=> Len(bus.responses) = 1
  /\ bus.pc \notin {"idle", "responded"} => ENABLED BusProgress
  /\ bus.pc = "responded" =>
       LET r == bus.responses[1]
       IN /\ "ok" \in DOMAIN r
          /\ r.ok \in BOOLEAN
          /\ ~r.ok => DOMAIN r = {"ok", "error"}
          /\ r.ok => r = Spread([ok |-> TRUE], bus.outcome)
          /\ bus.failed => r = [ok |-> FALSE, error |-> "store failure"]
          /\ bus.message.type = "PING" => r = [ok |-> FALSE, error |-> "Unknown message type."]
          /\ (bus.message.type \in {"CONTEXT_UPDATE", "CODE_SNAPSHOT_UPDATE", "RESCAN_CONTEXT"}
              /\ bus.tabId = NoTab)
             => ~r.ok /\ r.error \in NoTabRejections /\ storage = bus.before
          /\ (~r.ok /\ r.error \in NoTabRejections) => storage = bus.before

\* CONTEXT_UPDATE from a sender without a tab was answered {ok:false, error}
C24_Witness ==
  /\ bus.pc = "responded"
  /\ bus.message.type = "CONTEXT_UPDATE"
  /\ bus.tabId = NoTab
  /\ bus.responses = <<[ok |-> FALSE, error |-> "Context update without tab."]>>
  /\ storage.tabState[1].value.context = "c1"

\* a SAVE_SETTINGS request that was answered {ok:true, settings}
SaveAnswered ==
  /\ bus.pc = "responded"
  /\ bus.message.type = "SAVE_SETTINGS"
  /\ bus.responses[1].ok

NearestBound(t) ==
  IF t > MaxTemperature THEN MaxTemperature ELSE IF t < MinTemperature THEN MinTemperature ELSE t

\* C25 as stated: the returned and stored temperature is the supplied one
\* clamped to the nearest bound of [0,1].
C25_ClampedToNearestBound ==
  SaveAnswered =>
    /\ bus.responses[1].settings.temperature = NearestBound(bus.message.settings.temperature)
    /\ storage.settings.temperature = NearestBound(bus.message.settings.temperature)

\* C25 amended: SAVE_SETTINGS is rejected for no temperature; the returned and
\* stored temperature is 0.2 whatever was supplied, and only the legacy
\* background clamps the supplied value to the nearest bound of [0,1].
C25_TemperatureFixedOrClamped ==
  /\ (bus.pc = "responded" /\ bus.message.type = "SAVE_SETTINGS" /\ ~bus.failed)
       => bus.responses[1].ok
  /\ SaveAnswered =>
       /\ storage.settings.temperature = bus.responses[1].settings.temperature
       /\ bus.responses[1].settings.temperature =
            IF bus.message.legacy
            THEN NearestBound(bus.message.settings.temperature)
            ELSE FIXED_TEMPERATURE

\* temperature 5 was saved through the background and 0.2 came back
C25_Witness ==
  /\ SaveAnswered
  /\ ~bus.message.legacy
  /\ bus.message.settings.temperature = 50
  /\ bus.responses[1].settings.temperature = FIXED_TEMPERATURE
  /\ storage.settings.temperature = FIXED_TEMPERATURE

\* no other call has written the history of the tab of call c
OnlyWriter(c) ==
  \A d \in Calls \ {c} : histWrites[d] = 0 \/ request[d].tabId # request[c].tabId

\* C26: a call that emitted STREAM_DONE has written the history before; what it
\* wrote was its nextHistory, which it holds unchanged up to the emit and puts
\* into STREAM_DONE; with no other writer on the tab, reading the tab's history
\* after STREAM_DONE gives the sequence STREAM_DONE carried.
C26_DoneCarriesWrittenHistory ==
  /\ [](\A c \in Calls :
          HasEvent(c, "STREAM_DONE") =>
            /\ histWrites[c] = 1
            /\ OnlyWriter(c) => getHistory(request[c].tabId) = LastEvent(c).history)
  /\ [][\A c \in Calls :
          histWrites'[c] # histWrites[c] =>
            /\ ~HasEvent(c, "STREAM_DONE")
            /\ pc'[c] = "emitDone"
            /\ storage'.history[request[c].tabId] = Stored(local[c].nextHistory)]_vars
  /\ [][\A c \in Calls :
          pc[c] = "emitDone" =>
            \/ local'[c] = local[c] /\ events'[c] = events[c]
            \/ /\ events'[c] = Append(events[c], LastEvent(c)')
               /\ LastEvent(c)'.type = "STREAM_DONE"
               /\ LastEvent(c)'.history = local[c].nextHistory]_vars

\* STREAM_DONE was emitted on the tab whose history was at the cap, and the store
\* holds the 30 items it carried
C26_Witness ==
  \E c \in Calls :
    /\ EndsWith(c, "STREAM_DONE")
    /\ OnlyWriter(c)
    /\ loadedLen[c] = 30
    /\ Len(LastEvent(c).history) = 30
    /\ storage.history[request[c].tabId] = Stored(LastEvent(c).history)

\* start has resolved its context and code snapshot and still holds them
Resolved(c) ==
  pc[c] \in {"getHistory", "streamText", "textStream", "incrementTokenCounter",
             "setHistory", "emitDone"}

\* C27: each of context and code snapshot is the request's value when the request
\* carries one, and otherwise the value of the tab state start read, which is the
\* persisted one at that moment; no step of start changes the persisted tab state.
C27_ResolvedPerField ==
  /\ [](\A c \in Calls :
          Resolved(c) =>
            /\ local[c].context = IF request[c].context # "null"
                                  THEN request[c].context ELSE local[c].tabState.context
            /\ local[c].codeSnapshot = IF request[c].codeSnapshot # "null"
                                       THEN request[c].codeSnapshot
                                       ELSE local[c].tabState.codeSnapshot)
  /\ [][\A c \in Calls :
          (pc[c] = "getTabState" /\ pc'[c] = "getHistory") =>
            /\ storage.tabState[request[c].tabId].present =>
                 local'[c].tabState = storage.tabState[request[c].tabId].value
            /\ ~storage.tabState[request[c].tabId].present =>
                 local'[c].tabState = [context |-> "null", codeSnapshot |-> "null"]]_vars
  /\ [][storage'.tabState # storage.tabState =>
          /\ merge["m1"].pc = "set" /\ merge'["m1"].pc = "done"
          /\ UNCHANGED <<pc, local, events, sessions, request>>]_vars

\* the request carried a code snapshot and no context: the snapshot is the
\* request's, the context is the one the content script persisted last
C27_Witness ==
  \E c \in Calls :
    /\ Resolved(c)
    /\ request[c].context = "null" /\ request[c].codeSnapshot = "s9"
    /\ local[c].context = "c1" /\ local[c].codeSnapshot = "s9"
    /\ storage.tabState[request[c].tabId] = Stored([context |-> "c1", codeSnapshot |-> "s1"])

\* the sessions of a tab that are in the registry
LiveSessions(tabId) == {r \in ReqIds : sessions[sessionKey(tabId, r)] # NoCall}

\* C28: with the in-page UI as the tab's only client the registry holds at most
\* one session of the tab; sendMessage changes nothing while sending is true;
\* sending is cleared only when the listener receives STREAM_DONE or STREAM_ERROR
\* of the tracked request; a call that has emitted its terminal event is no
\* longer the registered session of its key.
C28_OneLiveSession ==
  /\ [](Cardinality(LiveSessions(ContentTab)) <= 1)
  /\ [](\A c \in Calls : TerminalCount(c) > 0 => ~Registered(c))
  /\ [](ui.sending <=> ui.requestId # NoRequestId)
  /\ [][(ui.sending /\ Len(toBg') > Len(toBg))
        => (ui' = ui /\ toBg'[Len(toBg')].type = "CANCEL_CHAT_STREAM")]_vars
  /\ [][(ui.sending /\ ~ui'.sending) =>
          /\ toUi # <<>> /\ toUi' = Tail(toUi)
          /\ IsTerminal(Head(toUi))
          /\ Head(toUi).requestId = ui.requestId]_vars

\* the second request of the UI is the one live session of the tab, after the
\* first was finished by its STREAM_DONE
C28_Witness ==
  /\ LiveSessions(ContentTab) = {RequestIds[2]}
  /\ ui.sending /\ ui.requestId = RequestIds[2]
  /\ EndsWith(1, "STREAM_DONE")
  /\ pc[1] = "returned" /\ pc[2] = "textStream"

\* the user item and the assistant item a call with STREAM_DONE appended
Exchange(c) ==
  << [role |-> "user", content |-> request[c].text],
     [role |-> "assistant", content |-> LastEvent(c).response] >>

ContainsExchange(history, exchange) ==
  \E i \in 1..(Len(history) - 1) : history[i] = exchange[1] /\ history[i + 1] = exchange[2]

\* two calls on one tab with distinct request ids have both emitted STREAM_DONE
BothDone(c, d) ==
  /\ c # d
  /\ request[c].tabId = request[d].tabId
  /\ request[c].requestId # request[d].requestId
  /\ EndsWith(c, "STREAM_DONE") /\ EndsWith(d, "STREAM_DONE")

\* C29: setHistory stores the array the session built from the history it had
\* loaded: after two sessions of one tab have both emitted STREAM_DONE the store
\* holds the array of one of them as a whole, and when both had loaded the same
\* history that array lacks the exchange of the other.
C29_LastWriterWins ==
  \A c, d \in Calls :
    BothDone(c, d) =>
      /\ getHistory(request[c].tabId) \in {LastEvent(c).history, LastEvent(d).history}
      /\ (loadedLen[c] = 0 /\ loadedLen[d] = 0 /\ Exchange(c) # Exchange(d)) =>
           \/ getHistory(request[c].tabId) = Exchange(c)
           \/ getHistory(request[c].tabId) = Exchange(d)

\* both sessions emitted STREAM_DONE and the persisted history of their tab
\* holds the exchange of the second only
C29_Witness ==
  /\ BothDone(1, 2)
  /\ Exchange(1) # Exchange(2)
  /\ ContainsExchange(LastEvent(1).history, Exchange(1))
  /\ ContainsExchange(getHistory(request[1].tabId), Exchange(2))
  /\ ~ContainsExchange(getHistory(request[1].tabId), Exchange(1))

InFlight(c) == pc[c] \notin {"idle", "returned", "rejected"}

\* the second start call was made with the key of the first while the first was live
Collided == KeyOf(1) = KeyOf(2) /\ InFlight(1) /\ InFlight(2)

StartCount(c) ==
  Cardinality({i \in 1..Len(events[c]) : events[c][i].type = "STREAM_START"})

\* C30: when a start is made with the (tabId, requestId) of a live session, each
\* of the two calls, once finished, has emitted one STREAM_START and one
\* terminal event of its own.
C30_EachEmitsStartAndTerminal ==
  [][Collided =>
       \A c \in Calls :
         Finished(c)' => (StartCount(c)' = 1 /\ TerminalCount(c)' = 1)]_vars

\* the registry maps the pair of call c to the controller of call c
HoldsControllerOf(c) ==
  \E k \in DOMAIN sessions :
    k = <<request[c].tabId, request[c].requestId>> /\ sessions[k] = c

\* no other start call was made with the pair of call c
SolePair(c) ==
  \A d \in Calls \ {c} :
    pc[d] = "idle" \/ request[d].tabId # request[c].tabId
                   \/ request[d].requestId # request[c].requestId

\* C31 as stated: while a start call is in flight the registry maps its pair to
\* its own controller, whatever other start calls do.
C31_EntryIsOwnController ==
  \A c \in Calls : InFlight(c) => HoldsControllerOf(c)

\* C31 amended: while a start call is in flight and no other start call was made
\* with its (tabId, requestId), the registry maps the pair to its own
\* controller, and a cancel for the pair aborts that call.
C31_EntryIsOwnControllerIfSole ==
  /\ [](\A c \in Calls : (InFlight(c) /\ SolePair(c)) => HoldsControllerOf(c))
  /\ [][\A c \in Calls :
          (InFlight(c) /\ SolePair(c)
           /\ Cancel(request[c].tabId, request[c].requestId)) => aborted'[c]]_vars

\* two calls of one tab with distinct request ids are in flight, each
\* registered, and the cancel for the first has aborted the first only
C31_Witness ==
  /\ InFlight(1) /\ InFlight(2)
  /\ request[1].tabId = request[2].tabId
  /\ request[1].requestId # request[2].requestId
  /\ HoldsControllerOf(1) /\ HoldsControllerOf(2)
  /\ aborted[1] /\ ~aborted[2]

\* the lines of the prompt from line i on
LinesFrom(i) == SubSeq(prompt.text, i, Len(prompt.text))

\* the lines of the prompt after the two instructions and the custom fragment
AfterFragment ==
  IF Trim(prompt.settings.systemPromptOverride) = <<>>
  THEN LinesFrom(4)
  ELSE LinesFrom(6)

\* C32 as stated: with no context and no code snapshot the prompt ends with the
\* custom fragment, or with the response instruction when there is none.
C32_NoContextNoCodeSection ==
  (prompt.built /\ prompt.context.null /\ prompt.code.null) => AfterFragment = <<>>

\* C32 amended: the prompt is the coaching instruction, the response
\* instruction, the custom fragment when it is not blank, the context section
\* and the code section, in that order with one empty line between two
\* sections; the context section of a missing context and the code section of
\* a missing or blank code snapshot are fixed sentences, never left out.
C32_SectionsInOrder ==
  prompt.built =>
    /\ Len(prompt.text) >= 7
    /\ prompt.text[1] # <<"">> /\ prompt.text[2] = <<"">>
    /\ <<prompt.text[1]>> =
         resolveCoachingInstruction(prompt.settings.coachingStyle, prompt.personaMode)
    /\ <<prompt.text[3]>> = responseInstruction(prompt.settings.responseStyle)
    /\ Trim(prompt.settings.systemPromptOverride) # <<>> =>
         /\ prompt.text[4] = <<"">>
         /\ prompt.text[5] = Trim(prompt.settings.systemPromptOverride)
    /\ LET rest == AfterFragment
           context == IF prompt.context.null THEN NoContextText
                      ELSE SubSeq(rest, 2, 15)
           code == IF prompt.code.null \/ Trim(prompt.code.code) = <<>>
                   THEN NoCodeText
                   ELSE << <<"Current Code Snapshot:">>, <<"Source: ", prompt.code.source>>,
                           rest[Len(rest) - 4], rest[Len(rest) - 3],
                           Fence, prompt.code.code, Fence >>
       IN /\ rest = <<<<"">>>> \o context \o <<<<"">>>> \o code
          /\ ~prompt.context.null =>
               /\ context[1] = <<"Site: ", prompt.context.site>>
               /\ context[14][1] = "Extraction Confidence: "

\* a prompt built without context and code snapshot and with a blank custom
\* fragment: two instructions and the two fixed sentences
C32_Witness ==
  /\ prompt.built /\ prompt.context.null /\ prompt.code.null
  /\ prompt.settings.systemPromptOverride = <<" ">>
  /\ Len(prompt.text) = 7
  /\ prompt.text[5] = <<"No parsed problem context was found.">>
  /\ prompt.text[7] = <<"No code snapshot available yet.">>

\* the last item of the displayed history is an assistant item without text
EmptyPlaceholderLast ==
  /\ ui.history # <<>>
  /\ ui.history[Len(ui.history)].role = "assistant"
  /\ ui.history[Len(ui.history)].content = <<>>

\* the port delivers STREAM_ERROR for the tracked request
ErrorForTracked ==
  /\ toUi # <<>>
  /\ toUi' = Tail(toUi)
  /\ lastReceived' = Head(toUi)
  /\ Head(toUi).type = "STREAM_ERROR"
  /\ ui.requestId # NoRequestId
  /\ Head(toUi).requestId = ui.requestId

\* C33: when the UI processes STREAM_ERROR for its tracked request, sending
\* becomes false, the tracked requestId becomes null, and the last history
\* item is removed if and only if it is an assistant placeholder with empty
\* content; a placeholder that has received chunks is kept.
C33_ErrorFinalizesTurn ==
  [][ErrorForTracked =>
       /\ ~ui'.sending
       /\ ui'.requestId = NoRequestId
       /\ ui'.history = IF EmptyPlaceholderLast
                        THEN SubSeq(ui.history, 1, Len(ui.history) - 1)
                        ELSE ui.history]_vars

\* the items tab 1 holds before any clear
OldItems == {OldHistory(MAX_HISTORY_MESSAGES)[i] : i \in 1..MAX_HISTORY_MESSAGES}

HasOldItem(history) == \E i \in DOMAIN history : history[i] \in OldItems

\* CLEAR_CHAT_HISTORY for tab 1 has been answered with ok
ClearResponded ==
  /\ bus.pc = "responded"
  /\ bus.message.type = "CLEAR_CHAT_HISTORY"
  /\ ~bus.failed

\* C34: after CLEAR_CHAT_HISTORY(tabId) has responded, no history item that
\* existed before the clear is in the tab's persisted history, and none is in
\* the history of a STREAM_DONE emitted afterwards, also when a session for the
\* tab was in flight at the time of the clear and completes afterwards.
C34_ClearedItemsNeverReappear ==
  /\ [](ClearResponded => ~HasOldItem(getHistory(1)))
  /\ [][ClearResponded =>
          \A c \in Calls :
            (Len(events'[c]) > Len(events[c]) /\ LastEvent(c)'.type = "STREAM_DONE")
              => ~HasOldItem(LastEvent(c)'.history)]_vars

\* the UI has received a terminal event for request r and is idle
TerminalReceived(r) ==
  /\ lastReceived.type \in {"STREAM_DONE", "STREAM_ERROR"}
  /\ lastReceived.requestId = r
  /\ ~ui.sending

\* C35: once sendMessage has set sending and posted SEND_CHAT_STREAM, and every
\* store operation and the completion call settle and the port delivers, the
\* UI eventually receives a terminal event for the tracked requestId and
\* sending is false again.
C35_SendReachesTerminal ==
  \A r \in ReqIds : (ui.sending /\ ui.requestId = r) ~> TerminalReceived(r)

\* the UI is idle and the event it processed last is of the given type
IdleAfter(type) == ~ui.sending /\ lastReceived.type = type

\* C36 as stated: whenever the UI is idle after a terminal event, after
\* STREAM_DONE and after STREAM_ERROR alike, the history it displays equals
\* the tab's persisted history.
C36_DisplayedEqualsPersisted ==
  (IdleAfter("STREAM_DONE") \/ IdleAfter("STREAM_ERROR"))
    => ui.history = getHistory(ContentTab)

\* the displayed history ends with a user turn, followed or not by an
\* assistant item that holds text
EndsWithUnansweredTurn(history) ==
  LET n == Len(history)
  IN \/ n >= 1 /\ history[n].role = "user"
     \/ /\ n >= 2
        /\ history[n - 1].role = "user"
        /\ history[n].role = "assistant"
        /\ history[n].content # <<>>

\* C36 amended: idle after STREAM_DONE the UI displays the tab's persisted
\* history; idle after STREAM_ERROR it displays what it displayed before the
\* send followed by the user turn it added, and by the assistant item when
\* chunks had arrived: only the empty placeholder is gone, and the user turn
\* is displayed although it was not persisted.
C36_DoneShowsPersistedErrorKeepsTurn ==
  /\ IdleAfter("STREAM_DONE") => ui.history = getHistory(ContentTab)
  /\ IdleAfter("STREAM_ERROR") => EndsWithUnansweredTurn(ui.history)

\* the request failed before any chunk: the user turn is displayed and nothing
\* is persisted for the tab
C36_Witness ==
  /\ IdleAfter("STREAM_ERROR")
  /\ Len(ui.history) = 1
  /\ ui.history[1].role = "user"
  /\ getHistory(ContentTab) = <<>>

\* no CONTEXT_UPDATE call is awaited
NoRpcAwaited == acked.settled = Len(rpcs)

\* C37: the publisher's last-propagated signature equals the signature of the
\* last context whose CONTEXT_UPDATE call succeeded: a failed call leaves the
\* last-propagated signature and the held context as they were, so the next
\* unforced scan of the same page sends the update again.
C37_SignatureOfLastSuccess ==
  /\ NoRpcAwaited => lastContextSignature = acked.signature
  /\ (NoRpcAwaited /\ rpcs # <<>> /\ ~acked.ok)
       => ~Unchanged(FALSE, contextSignature(rpcs[Len(rpcs)].context))

\* a step that sends no CODE_SNAPSHOT_UPDATE and keeps the held snapshot
NoCodePublished ==
  /\ state'.codeSnapshot = state.codeSnapshot
  /\ Len(rpcs') <= Len(rpcs)

\* C38: when the editor content of the page stops changing, the publisher
\* eventually stops sending CODE_SNAPSHOT_UPDATE and the held snapshot stays
\* constant, although the page bridge and the periodic scan both keep feeding
\* publishCodeSnapshot.
C38_CaptureQuiesces == <>[][NoCodePublished]_vars

\* the events posted on an endpoint so far, as (call, event) pairs
PostedOn(p) ==
  {<<c, i>> \in Calls \X (1..(MaxChunks + 5)) : i <= Len(events[c]) /\ events[c][i].port = p}

\* C39: every event of a session is posted on the port its SEND_CHAT_STREAM
\* arrived on and on no other: a cancel sent from another endpoint aborts the
\* session and posts nothing, and the STREAM_ERROR that follows goes to the
\* originating port only.
C39_EventsOnOriginatingPort ==
  /\ [](\A p \in Endpoints : \A e \in PostedOn(p) :
          /\ request[e[1]].port = p
          /\ events[e[1]][e[2]].requestId = request[e[1]].requestId)
  /\ [][(\E c \in Calls : aborted'[c] /\ ~aborted[c]) => events' = events]_vars

\* a session started on p1 was canceled and its cancellation error was posted
\* on p1, while the other endpoint holds the events of its own session only
C39_Witness ==
  /\ request[1].port = "p1" /\ request[2].port = "p2"
  /\ aborted[1] /\ ~aborted[2]
  /\ Finished(1) /\ events[1] # <<>>
  /\ LastEvent(1).type = "STREAM_ERROR" /\ LastEvent(1).error = "Request canceled."
  /\ LastEvent(1).port = "p1"
  /\ PostedOn("p2") # {}
  /\ \A e \in PostedOn("p2") : e[1] = 2

\* the value stored under the history key of a tab, [] when the key is absent
HistoryUnderKey(t) ==
  IF storage.history[t].present THEN storage.history[t].value ELSE <<>>

\* C40: a session for (tabA, r) reads and writes only tabA's history key and
\* never writes a tab-state key, and cancel(tabA, r) aborts no session with a
\* different tab identifier or a different request identifier.
C40_TabAndSessionIsolation ==
  [][/\ \A t \in Tabs :
          storage'.history[t] # storage.history[t]
            => \E c \in Calls : /\ request[c].tabId = t
                                /\ pc[c] = "setHistory" /\ pc'[c] # "setHistory"
     /\ storage'.tabState = storage.tabState
     /\ \A c \in Calls :
          (pc[c] = "getHistory" /\ pc'[c] = "streamText")
            => local'[c].history = HistoryUnderKey(request[c].tabId)
     /\ \A t \in Tabs, r \in ReqIds :
          Cancel(t, r) => \A c \in Calls :
                            (aborted'[c] /\ ~aborted[c])
                              => request[c].tabId = t /\ request[c].requestId = r
    ]_vars

\* two sessions with the same request id on two tabs: the one of tab 1 was
\* canceled, the one of tab 2 was not and has written tab 2's history, and tab 1
\* still holds the conversation it held at the start
C40_Witness ==
  /\ request[1].tabId = 1 /\ request[2].tabId = 2
  /\ request[1].requestId = request[2].requestId
  /\ InFlight(1) /\ aborted[1]
  /\ pc[2] = "emitDone" /\ ~aborted[2]
  /\ Len(HistoryUnderKey(2)) = 2
  /\ HistoryUnderKey(1) = OldHistory(MAX_HISTORY_MESSAGES)
====
